---- MODULE Spec2Model ----
(***************************************************************************)
(* PlotJuggler main window: undo/redo snapshot history and the streaming   *)
(* data path (streamer buffer -> series store -> time-window transform).   *)
(* Times are integers: wall-clock time in milliseconds, series time in     *)
(* seconds.                                                                *)
(***************************************************************************)
EXTENDS Integers, Sequences, FiniteSets, TLC

VARIABLES
  undo_states,          \* MainWindow::_undo_states (front = oldest)
  redo_states,          \* MainWindow::_redo_states
  undo_timer,           \* ms elapsed on _undo_timer since its last (re)start
  disable_undo_logging, \* MainWindow::_disable_undo_logging
  layout,               \* live state of the tabbed plot areas (a version id)
  remove_time_offset,   \* ui->buttonRemoveTimeOffset->isChecked()
  edit_count,           \* number of edits made by the user so far (bounded by MaxEdits)
  popup_active,         \* QApplication::activePopupWidget() || activeModalWidget()
  hist,                 \* history variable: the last handler that changed the history
  active_streamer,      \* MainWindow::_active_streamer_plugin != nullptr
  streaming_paused,     \* ui->buttonStreamingPause->isChecked()
  replot_timer,         \* _replot_timer: ms left until its timeout, TimerOff when not active
  spin_value,           \* ui->streamingSpinBox->value()
  max_range_x,          \* retention horizon of _mapped_plot_data
  store,                \* _mapped_plot_data.numeric: name -> times of the points
  curve_list,           \* names shown by _curvelist_widget
  streamer_data,        \* the streamer's dataMap(): name -> times of the pending points
  streamer_max_range,   \* retention horizon of the streamer's dataMap()
  stream_clock,         \* time stamp of the last point the streamer produced
  notify_pending,       \* dataReceived signals queued for the main thread
  mutex_owner,          \* who holds the streamer's mutex(): "none" or "main"
  pc,                   \* position of the main thread inside a handler, "idle" between handlers
  added_curves,         \* the added_curves returned by the last MoveData
  tracker_time,         \* MainWindow::_tracker_time
  tw_window,            \* <<prev_seconds, next_seconds>> of the Time Window transform
  tw_dst,               \* destination series of the Time Window transform
  tw_max_range,         \* retention horizon of that destination
  transforms,           \* _transform_functions: name -> [sources, order]
  next_order,           \* the order() the next constructed transform gets
  eval_log,             \* names of the transforms in the order the last bulk pass calculated them
  cyclic_diag,          \* the last ordering of transforms showed the cyclic-dependency warning
  load_order,           \* aliases of the sorted_snippets of the last layout load
  cyclic_rest,          \* indices of the snippets the last layout load appended with in_degree != 0
  loaded,               \* the snippets of the last layout load
  deleted,              \* the curve_names of the last onDeleteMultipleCurves
  slider_min,           \* ui->timeSlider->getMinimum()
  slider_max,           \* ui->timeSlider->getMaximum()
  xy_x,                 \* PointSeriesXY::_x_axis: points <<time, value>>
  xy_y,                 \* PointSeriesXY::_y_axis: points <<time, value>>
  xy_window,            \* PointSeriesXY::_windowed, _prev_sec, _next_sec
  xy_tracker,           \* PointSeriesXY::_tracker_time
  xy_cache,             \* PointSeriesXY::_cached_curve: points <<x, y>>
  xy_error,             \* the last updateCache threw the axis-misalignment error
  tw_time,              \* TimeWindowTransform::_tracker_time
  reactive_lua,         \* the reactive Lua function: whether there is one, and its time tracker
  playing,              \* ui->buttonPlay is checked (the playback timer runs)
  xy_first,             \* the XY curve comes before the Time Window curve in the plots
  w_fresh,              \* the windowed results were computed from the present series, window and time
  tracker_delay,        \* _tracker_delay: ms left on its single-shot timer, TimerOff when not active
  plot_tracker,         \* the tracker position the plots were given by setTrackerPosition
  settles,              \* calls of the _tracker_delay callback since the last onTrackerTimeUpdated
  last_tick,            \* how the last tick of the playback timer ended ("none" before the first)
  failing,              \* names of the transforms whose calculation raises a runtime error now
  reactive_functions,   \* names of the entries of _transform_functions that are ReactiveLuaFunction
  strings,              \* names of the series in _mapped_plot_data.strings
  user_defined,         \* names of the series in _mapped_plot_data.user_defined
  plotted,              \* src_name of the curves in the curveList() of the plots
  visible_range         \* <<min, max, steps>> of calculateVisibleRangeX at the last curveListChanged

undo_vars == <<undo_states, redo_states, undo_timer, disable_undo_logging, layout,
               remove_time_offset, edit_count, popup_active, hist>>

stream_vars == <<active_streamer, streaming_paused, replot_timer, spin_value, max_range_x,
                 store, curve_list, streamer_data, streamer_max_range, stream_clock,
                 notify_pending, mutex_owner, pc, added_curves, tracker_time, tw_window,
                 tw_dst, tw_max_range>>

graph_vars == <<transforms, next_order, eval_log, cyclic_diag, load_order, cyclic_rest, loaded,
                deleted, slider_min, slider_max>>

window_vars == <<xy_x, xy_y, xy_window, xy_tracker, xy_cache, xy_error, tw_time, reactive_lua,
                 playing, xy_first, w_fresh>>

\* window_vars without the play button.
window_rest == <<xy_x, xy_y, xy_window, xy_tracker, xy_cache, xy_error, tw_time, reactive_lua,
                 xy_first, w_fresh>>

settle_vars == <<tracker_delay, plot_tracker, settles>>

play_vars == <<last_tick>>

\* What the handlers of the tracker delay leave alone in the later sections.
batch_vars == <<failing, reactive_functions>>

kind_vars == <<strings, user_defined>>

range_vars == <<plotted, visible_range>>

detail_rest == <<play_vars, batch_vars, kind_vars, range_vars>>

detail_vars == <<settle_vars, detail_rest>>

vars == <<undo_vars, stream_vars, graph_vars, window_vars, detail_vars>>

----
\* Bounds of the model.
MaxEdits == 2          \* layout edits explored beyond the initial history
MaxRedoDepth == 3      \* Undo is explored while the redo stack is shorter than this
ElapsedCap == 101      \* the undo timer saturates here (only "< 100" is ever tested)
TimeSteps == {50, 100} \* amounts of wall-clock time that pass in one step (ms)
InitHistoryLens == {1, 99} \* undo-stack sizes the exploration starts from

\* Layout versions: 0 is the layout of a layout file, 1..99 the initial history,
\* and the edits of the run get fresh versions above FreshBase.
FreshBase == 100
LayoutFiles == {[layout |-> 0, rel |-> TRUE], [layout |-> 0, rel |-> FALSE]}

MaxTime == 3           \* the streamer produces the time stamps 1..MaxTime
MaxNotify == 1         \* dataReceived signals that can be queued at once
StreamTimeSteps == {ElapsedCap} \* on the streaming path a step of time expires both timers
StreamSteps == {1, 2}    \* seconds between two consecutive streamed points
SpinChoices == {1, 10} \* values the user gives to the buffer-size spin box

\* Program constants.
MaxUndoStates == 100   \* capacity of _undo_states and of _redo_states
CoalesceMs == 100      \* edits closer than this overwrite the previous snapshot
ReplotMs == 40         \* _replot_timer->start(40)
SpinMaximum == 10      \* ui->streamingSpinBox->maximum(), shown as "=inf"
DblMax == 1000000      \* std::numeric_limits<double>::max(): no retention horizon
TimerOff == -1         \* a QTimer that is not active
TrackerDelayMs == 100  \* _tracker_delay.triggerSignal(100)

----
\* Helpers on sequences.
Last(s) == s[Len(s)]
Front(s) == SubSeq(s, 1, Len(s) - 1)
Min(a, b) == IF a < b THEN a ELSE b
Max(a, b) == IF a > b THEN a ELSE b

\* The document produced by xmlSaveState(): the tabbed areas and the
\* use_relative_time_offset flag.
XmlSaveState(l, rel) == [layout |-> l, rel |-> rel]

\* The undo-related fields of MainWindow, passed through nested calls.
History(u, r, t, d) == [undo |-> u, redo |-> r, timer |-> t, disable |-> d]

\* while (stack.size() >= 100) stack.pop_front();
PopFrontWhileFull_Gt(s) ==
  IF Len(s) > MaxUndoStates THEN SubSeq(s, Len(s) - MaxUndoStates + 1, Len(s)) ELSE s

PopFrontWhileFull(s) ==
  IF Len(s) >= MaxUndoStates THEN SubSeq(s, Len(s) - MaxUndoStates + 2, Len(s)) ELSE s

\* MainWindow::onUndoableChange with the snapshot doc == xmlSaveState().
OnUndoableChange_NoCoalesce(h, doc) ==
  IF h.disable THEN h
  ELSE [h EXCEPT !.undo = Append(PopFrontWhileFull(h.undo), doc), !.redo = <<>>, !.timer = 0]

OnUndoableChange_KeepRedo(h, doc) ==
  IF h.disable THEN h
  ELSE LET u1 == IF h.timer < CoalesceMs /\ h.undo # <<>> THEN Front(h.undo) ELSE h.undo
       IN [h EXCEPT !.undo = Append(PopFrontWhileFull(u1), doc), !.timer = 0]

OnUndoableChange_IgnoreDisable(h, doc) ==
  LET u1 == IF h.timer < CoalesceMs /\ h.undo # <<>> THEN Front(h.undo) ELSE h.undo
  IN [h EXCEPT !.undo = Append(PopFrontWhileFull(u1), doc), !.redo = <<>>, !.timer = 0]

OnUndoableChange(h, doc) ==
  IF h.disable THEN h
  ELSE LET u1 == IF h.timer < CoalesceMs /\ h.undo # <<>> THEN Front(h.undo) ELSE h.undo
       IN [h EXCEPT !.undo = Append(PopFrontWhileFull(u1), doc), !.redo = <<>>, !.timer = 0]

\* MainWindow::xmlLoadState: the tabbed areas take the document's layout, then
\* the relative-time button is set from the document; setChecked emits toggled
\* only when the value changes, and on_buttonRemoveTimeOffset_toggled then
\* raises onUndoableChange with the state as it is at that moment.
XmlLoadState(h, doc, rel) ==
  [hist_ |-> IF doc.rel # rel THEN OnUndoableChange(h, XmlSaveState(doc.layout, doc.rel)) ELSE h,
   layout |-> doc.layout,
   rel |-> doc.rel]

\* The stack moves of onUndoInvoked (the body of "if (_undo_states.size() > 1)").
UndoStacks_PushNewTop(h) ==
  IF Len(h.undo) > 1
  THEN [h EXCEPT !.redo = Append(PopFrontWhileFull(h.redo), Last(Front(h.undo))),
                 !.undo = Front(h.undo)]
  ELSE h

UndoStacks(h) ==
  IF Len(h.undo) > 1
  THEN [h EXCEPT !.redo = Append(PopFrontWhileFull(h.redo), Last(h.undo)),
                 !.undo = Front(h.undo)]
  ELSE h

\* The stack moves of onRedoInvoked (the body of "if (_redo_states.size() > 0)").
RedoStacks_KeepRedo(h) ==
  IF Len(h.redo) > 0
  THEN [h EXCEPT !.undo = Append(PopFrontWhileFull(h.undo), Last(h.redo))]
  ELSE h

RedoStacks(h) ==
  IF Len(h.redo) > 0
  THEN [h EXCEPT !.undo = Append(PopFrontWhileFull(h.undo), Last(h.redo)),
                 !.redo = Front(h.redo)]
  ELSE h

FreshLayout == FreshBase + edit_count + 1

CurrentHistory == History(undo_states, redo_states, undo_timer, disable_undo_logging)

\* History variable: what the last history-changing handler saw and did.
Hist(op, gap, before) ==
  [op |-> op, prev_op |-> hist.op, gap |-> gap,
   ulen |-> Len(undo_states), rlen |-> Len(redo_states), before |-> before]

NoBefore == [undo |-> <<>>, redo |-> <<>>, layout |-> 0, rel |-> FALSE]
Before == [undo |-> undo_states, redo |-> redo_states, layout |-> layout,
           rel |-> remove_time_offset]

SetHistory(h) ==
  /\ undo_states' = h.undo
  /\ redo_states' = h.redo
  /\ undo_timer' = h.timer
  /\ disable_undo_logging' = h.disable

----
\* Series operations (PlotData / PlotDataMapRef).  A series is the sequence
\* of the time stamps of its points.

Span(p) == IF Len(p) = 0 THEN 0 ELSE Last(p) - p[1]

\* The points of series n of a map, none when the map has no such series.
Series(map, n) == IF n \in DOMAIN map THEN map[n] ELSE <<>>

RealRange(value) == IF value = SpinMaximum THEN DblMax ELSE value

\* Eviction: leading points older than latest_time - max_range_x are dropped.
RECURSIVE TrimRange_OffByOne(_, _)
TrimRange_OffByOne(p, range) ==
  IF Len(p) > 0 /\ range < DblMax /\ Last(p) - p[1] > range + 1
  THEN TrimRange_OffByOne(Tail(p), range)
  ELSE p

RECURSIVE TrimRange(_, _)
TrimRange(p, range) ==
  IF Len(p) > 0 /\ range < DblMax /\ Last(p) - p[1] > range
  THEN TrimRange(Tail(p), range)
  ELSE p

PushBack(p, t, range) == TrimRange(Append(p, t), range)

RECURSIVE PushAll(_, _, _)
PushAll(dst, src, range) ==
  IF src = <<>> THEN dst ELSE PushAll(PushBack(dst, Head(src), range), Tail(src), range)

\* PlotDataMapRef::setMaximumRangeX applied to the series of a map.
SetMaximumRangeX(map, range) == [n \in DOMAIN map |-> TrimRange(map[n], range)]

\* MoveData(source, destination, false): every source series is appended to
\* the series of the same name, created when absent, and left empty.
MoveData(src, dst, range) ==
  [dst |-> [n \in DOMAIN dst \cup DOMAIN src |->
              IF n \in DOMAIN src
              THEN PushAll(IF n \in DOMAIN dst THEN dst[n] ELSE <<>>, src[n], range)
              ELSE dst[n]],
   src |-> [n \in DOMAIN src |-> <<>>],
   added |-> DOMAIN src \ DOMAIN dst,
   pushed |-> \E n \in DOMAIN src : src[n] # <<>>]

\* PlotData::getIndexFromX: index (from 0) of the point nearest to x, -1 when empty.
Abs(x) == IF x < 0 THEN -x ELSE x

LowerBound(p, x) ==
  IF \E i \in 1..Len(p) : p[i] >= x
  THEN (CHOOSE i \in 1..Len(p) : p[i] >= x /\ \A j \in 1..(i - 1) : p[j] < x) - 1
  ELSE Len(p)

GetIndexFromX(p, x) ==
  IF Len(p) = 0 THEN -1
  ELSE LET index == LowerBound(p, x)
       IN IF index >= Len(p) THEN Len(p) - 1
          ELSE IF index > 0 /\ Abs(p[index] - x) < Abs(p[index + 1] - x) THEN index - 1
          ELSE index

\* The loop of TimeWindowTransform::calculate with the lower bound excluded.
RECURSIVE TimeWindowScan_ExclusiveLower(_, _, _, _, _, _)
TimeWindowScan_ExclusiveLower(src, i, lower, upper, dst, range) ==
  IF i >= Len(src) \/ src[i + 1] > upper THEN dst
  ELSE TimeWindowScan_ExclusiveLower(src, i + 1, lower, upper,
         IF src[i + 1] > lower THEN PushBack(dst, src[i + 1], range) ELSE dst, range)

\* The loop of TimeWindowTransform::calculate from 0-based index i on.
RECURSIVE TimeWindowScan(_, _, _, _, _, _)
TimeWindowScan(src, i, lower, upper, dst, range) ==
  IF i >= Len(src) \/ src[i + 1] > upper THEN dst
  ELSE TimeWindowScan(src, i + 1, lower, upper,
                      IF src[i + 1] >= lower THEN PushBack(dst, src[i + 1], range) ELSE dst,
                      range)

\* TimeWindowTransform::calculate without dst->clear().
TimeWindowCalculate_NoClear(src, range, t, window) ==
  IF Len(src) = 0 THEN [points |-> tw_dst, max_range |-> range]
  ELSE LET lower == t - window[1]
           upper == t + window[2]
           hint == GetIndexFromX(src, lower)
           i == IF hint > 1 THEN hint - 1 ELSE 0
       IN [points |-> TimeWindowScan(src, i, lower, upper, tw_dst, range),
           max_range |-> range]

\* TimeWindowTransform::calculate: src is the source series, range its
\* maximumRangeX(), t the transform's tracker time.
TimeWindowCalculate_NoInherit(src, range, t, window) ==
  IF Len(src) = 0 THEN [points |-> <<>>, max_range |-> DblMax]
  ELSE LET lower == t - window[1]
           upper == t + window[2]
           hint == GetIndexFromX(src, lower)
           i == IF hint > 1 THEN hint - 1 ELSE 0
       IN [points |-> TimeWindowScan(src, i, lower, upper, <<>>, DblMax),
           max_range |-> DblMax]

TimeWindowCalculate(src, range, t, window) ==
  IF Len(src) = 0 THEN [points |-> <<>>, max_range |-> range]
  ELSE LET lower == t - window[1]
           upper == t + window[2]
           hint == GetIndexFromX(src, lower)
           i == IF hint > 1 THEN hint - 1 ELSE 0
       IN [points |-> TimeWindowScan(src, i, lower, upper, <<>>, range),
           max_range |-> range]

\* The times of the points of an axis of the XY curve.
Times(axis) == [k \in 1..Len(axis) |-> axis[k][1]]

\* std::numeric_limits<double>::epsilon() on a time axis of whole seconds.
Eps == 0

\* The loop of PointSeriesXY::updateCache from 0-based index i on: the time
\* check, the break above the window, the skip below it, the push.
RECURSIVE XYScan_ExclusiveUpper(_, _, _, _, _, _, _)
XYScan_ExclusiveUpper(x, y, i, data_size, t_low, t_high, cache) ==
  IF i >= data_size THEN [cache |-> cache, error |-> FALSE]
  ELSE IF Abs(x[i + 1][1] - y[i + 1][1]) > Eps THEN [cache |-> cache, error |-> TRUE]
  ELSE IF x[i + 1][1] >= t_high THEN [cache |-> cache, error |-> FALSE]
  ELSE XYScan_ExclusiveUpper(x, y, i + 1, data_size, t_low, t_high,
         IF x[i + 1][1] < t_low THEN cache
         ELSE Append(cache, <<x[i + 1][2], y[i + 1][2]>>))

RECURSIVE XYScan(_, _, _, _, _, _, _)
XYScan(x, y, i, data_size, t_low, t_high, cache) ==
  IF i >= data_size THEN [cache |-> cache, error |-> FALSE]
  ELSE IF Abs(x[i + 1][1] - y[i + 1][1]) > Eps THEN [cache |-> cache, error |-> TRUE]
  ELSE IF x[i + 1][1] > t_high THEN [cache |-> cache, error |-> FALSE]
  ELSE XYScan(x, y, i + 1, data_size, t_low, t_high,
         IF x[i + 1][1] < t_low THEN cache
         ELSE Append(cache, <<x[i + 1][2], y[i + 1][2]>>))

\* PointSeriesXY::updateCache: the cache is cleared, the bounds are those of
\* the window or the whole axis, and a window seeks its start with
\* getIndexFromX and one step back.
UpdateCache(x, y, window, t) ==
  LET data_size == Min(Len(x), Len(y))
  IN IF data_size = 0 THEN [cache |-> <<>>, error |-> FALSE]
     ELSE LET t_low == IF window.windowed THEN t - window.prev ELSE 0 - DblMax
              t_high == IF window.windowed THEN t + window.next ELSE DblMax
              hint == GetIndexFromX(Times(x), t_low)
              start_index == IF window.windowed /\ hint > 1 THEN hint - 1 ELSE 0
          IN XYScan(x, y, start_index, data_size, t_low, t_high, <<>>)

\* The least and the greatest member of a set of numbers.
Least(S) == CHOOSE a \in S : \A b \in S : a <= b
Greatest(S) == CHOOSE a \in S : \A b \in S : a >= b

\* The member of a set of one member. {F(v) : v \in {e}} is the set of the
\* one value F(e), with e evaluated once however often F uses v.
Only(S) == CHOOSE x \in S : TRUE

\* One loop of calculateVisibleRangeX over the series called names: every
\* one that is in the numeric mapping with at least one point is merged into
\* min_time, max_time and max_steps.
MergeRange(acc, names, map) ==
  LET Merged(filled) ==
        [min_time |-> Least({acc.min_time} \cup {map[n][1] : n \in filled}),
         max_time |-> Greatest({acc.max_time} \cup {Last(map[n]) : n \in filled}),
         max_steps |-> Greatest({acc.max_steps} \cup {Len(map[n]) - 1 : n \in filled})]
  IN Only({Merged(filled) :
             filled \in {{n \in names \cap DOMAIN map : Len(map[n]) >= 1}}})

\* One loop of calculateVisibleRangeX alone, without the fallbacks.
VisibleRangeX_NoFallback(curves, map) ==
  LET none == [min_time |-> DblMax, max_time |-> 0 - DblMax, max_steps |-> 0]
      plots == MergeRange(none, curves \cup DOMAIN map, map)
  IN <<plots.min_time, plots.max_time, plots.max_steps>>

\* MainWindow::calculateVisibleRangeX with the curves of the plots: the loop
\* over the curves, when it leaves max_steps == 0 or max_time < min_time the
\* loop over every numeric series, and when that does too, <<0, 1, 1>>.
VisibleRangeX(curves, map) ==
  LET none == [min_time |-> DblMax, max_time |-> 0 - DblMax, max_steps |-> 0]
      AllSeries(plots) == IF plots.max_steps = 0 \/ plots.max_time < plots.min_time
                          THEN MergeRange(plots, DOMAIN map, map)
                          ELSE plots
      Range(all) == IF all.max_steps = 0 \/ all.max_time < all.min_time
                    THEN <<0, 1, 1>>
                    ELSE <<all.min_time, all.max_time, all.max_steps>>
  IN Only({Range(all) :
             all \in {AllSeries(plots) : plots \in {MergeRange(none, curves, map)}}})

\* MainWindow::calculateVisibleRangeX with the numeric series map and the
\* curves the plots hold: <<min, max, steps>>.
CalculateVisibleRangeX(map) == Only({VisibleRangeX(plotted, m) : m \in {map}})

\* MainWindow::isStreamingActive
IsStreamingActive == ~streaming_paused /\ active_streamer

\* MainWindow::updateReactivePlots for the Time Window transform of the plotted
\* curve "s": the transform gets the tracker time t and recalculates.
UpdateReactivePlots(map, range, t) ==
  IF "s" \in DOMAIN map
  THEN TimeWindowCalculate(map["s"], range, t, tw_window)
  ELSE [points |-> tw_dst, max_range |-> tw_max_range]

\* MainWindow::updateReactivePlots with the tracker time t: the reactive Lua
\* function gets the time and calculates; then the curves of the plots in
\* their order, the Time Window transform of "s" (setTimeTracker and
\* updateCache) and the XY curve when it is windowed (setTrackerTime and
\* updateCache). Nothing catches the exception of PointSeriesXY::updateCache:
\* it ends the loop and the handler, and a curve after the XY curve is not
\* reached.
ReactivePlots(map, t) ==
  LET r == UpdateCache(xy_x, xy_y, xy_window, t)
      thrown == xy_window.windowed /\ r.error
      reached == "s" \in DOMAIN map /\ ~(xy_first /\ thrown)
  IN /\ reactive_lua' = IF reactive_lua.exists THEN [reactive_lua EXCEPT !.time = t]
                        ELSE reactive_lua
     /\ IF xy_window.windowed
        THEN xy_tracker' = t /\ xy_cache' = r.cache /\ xy_error' = r.error
        ELSE UNCHANGED <<xy_tracker, xy_cache, xy_error>>
     /\ IF reached
        THEN LET tw == TimeWindowCalculate(map["s"], max_range_x, t, tw_window)
             IN tw_time' = t /\ tw_dst' = tw.points /\ tw_max_range' = tw.max_range
        ELSE UNCHANGED <<tw_time, tw_dst, tw_max_range>>

\* The updateCache of the windowed XY curve throws at the tracker time t.
XYThrows(t) == xy_window.windowed /\ UpdateCache(xy_x, xy_y, xy_window, t).error

\* MainWindow::onTrackerTimeUpdated with _tracker_time = t: triggerSignal
\* starts the single-shot timer of _tracker_delay again, updateReactivePlots
\* runs, and every plot gets the tracker position; an exception of
\* updateReactivePlots ends the handler before the plots are reached.
OnTrackerTimeUpdated(map, t) ==
  /\ tracker_delay' = TrackerDelayMs
  /\ settles' = 0
  /\ ReactivePlots(map, t)
  /\ plot_tracker' = IF XYThrows(t) THEN plot_tracker ELSE t
  /\ UNCHANGED detail_rest

\* MainWindow::on_buttonStreamingPause_toggled(paused): what it does to the history.
OnButtonStreamingPauseToggled(h, paused, active) ==
  IF paused \/ ~active
  THEN OnUndoableChange(h, XmlSaveState(layout, remove_time_offset))
  ELSE h

----
\* Custom equations and the other transforms (MainWindow::_transform_functions).

\* A custom equation of a layout (SnippetData): its alias_name and its
\* sources, the linked_source first and the additional_sources after it.
Snippet(alias, sources) == [alias |-> alias, sources |-> sources]

\* The snippets of the customMathEquations element of a layout document,
\* none when the element is null.
Snippets(doc) == IF "snippets" \in DOMAIN doc THEN doc.snippets ELSE <<>>

\* name_to_index[name]: a later snippet of the same alias overwrites the
\* entry of an earlier one; 0 when name_to_index.find(name) fails.
NameToIndex(snippets, name) ==
  LET found == {i \in 1..Len(snippets) : snippets[i].alias = name}
  IN IF found = {} THEN 0 ELSE CHOOSE i \in found : \A j \in found : j <= i

\* The addDep calls from source k of snippet i on, in the order of the code:
\* the sequence of the edges <<dependency, dependent>> they add.
RECURSIVE AddDeps_LinkedOnly(_, _, _)
AddDeps_LinkedOnly(snippets, i, k) ==
  IF i > Len(snippets) THEN <<>>
  ELSE LET dep == NameToIndex(snippets, snippets[i].sources[1])
       IN (IF dep # 0 /\ dep # i THEN << <<dep, i>> >> ELSE <<>>)
          \o AddDeps_LinkedOnly(snippets, i + 1, 1)

\* addDep without the test it->second != i.
RECURSIVE AddDeps_SelfEdges(_, _, _)
AddDeps_SelfEdges(snippets, i, k) ==
  IF i > Len(snippets) THEN <<>>
  ELSE IF k > Len(snippets[i].sources) THEN AddDeps_SelfEdges(snippets, i + 1, 1)
  ELSE LET dep == NameToIndex(snippets, snippets[i].sources[k])
       IN (IF dep # 0 THEN << <<dep, i>> >> ELSE <<>>)
          \o AddDeps_SelfEdges(snippets, i, k + 1)

RECURSIVE AddDeps(_, _, _)
AddDeps(snippets, i, k) ==
  IF i > Len(snippets) THEN <<>>
  ELSE IF k > Len(snippets[i].sources) THEN AddDeps(snippets, i + 1, 1)
  ELSE LET dep == NameToIndex(snippets, snippets[i].sources[k])
       IN (IF dep # 0 /\ dep # i THEN << <<dep, i>> >> ELSE <<>>)
          \o AddDeps(snippets, i, k + 1)

\* dependents[j] and in_degree[i] once every addDep has run.
Dependents(edges, j) ==
  LET sel == SelectSeq(edges, LAMBDA e : e[1] = j)
  IN [k \in 1..Len(sel) |-> sel[k][2]]

InDegree(edges, i) == Cardinality({k \in 1..Len(edges) : edges[k][2] = i})

\* The loop over the dependents without its decrement.
ProcessDependents_KeepDegree(deps, in_degree, queue) ==
  [in_degree |-> in_degree, queue |-> queue]

\* for (size_t dependent : dependents[current]) { in_degree--; push when 0 }
RECURSIVE ProcessDependents(_, _, _)
ProcessDependents(deps, in_degree, queue) ==
  IF deps = <<>> THEN [in_degree |-> in_degree, queue |-> queue]
  ELSE LET d == Head(deps)
           deg == [in_degree EXCEPT ![d] = @ - 1]
       IN ProcessDependents(Tail(deps), deg, IF deg[d] = 0 THEN Append(queue, d) ELSE queue)

\* while (!queue.empty()) of Kahn's algorithm.
RECURSIVE KahnLoop(_, _, _, _)
KahnLoop(edges, queue, in_degree, sorted) ==
  IF queue = <<>> THEN [sorted |-> sorted, in_degree |-> in_degree]
  ELSE LET current == Head(queue)
           r == ProcessDependents(Dependents(edges, current), in_degree, Tail(queue))
       IN KahnLoop(edges, r.queue, r.in_degree, Append(sorted, current))

Indices(n) == [i \in 1..n |-> i]

\* The sort with the remaining snippets appended from the last index down.
SortSnippets_RestReversed(snippets) ==
  LET n == Len(snippets)
      edges == AddDeps(snippets, 1, 1)
      in_degree == [i \in 1..n |-> InDegree(edges, i)]
      k == KahnLoop(edges, SelectSeq(Indices(n), LAMBDA i : in_degree[i] = 0), in_degree, <<>>)
      cyclic == Len(k.sorted) < n
      rest == SelectSeq(Indices(n), LAMBDA i : k.in_degree[i] # 0)
      reversed == [i \in 1..Len(rest) |-> rest[Len(rest) + 1 - i]]
  IN [sorted |-> IF cyclic THEN k.sorted \o reversed ELSE k.sorted,
      cyclic |-> cyclic,
      rest |-> IF cyclic THEN reversed ELSE <<>>]

\* sorted_snippets (as indices into snippets), whether the cyclic-dependency
\* warning is shown, and the indices appended after it with in_degree != 0.
SortSnippets(snippets) ==
  LET n == Len(snippets)
      edges == AddDeps(snippets, 1, 1)
      in_degree == [i \in 1..n |-> InDegree(edges, i)]
      k == KahnLoop(edges, SelectSeq(Indices(n), LAMBDA i : in_degree[i] = 0), in_degree, <<>>)
      cyclic == Len(k.sorted) < n
  IN [sorted |-> IF cyclic
                 THEN k.sorted \o SelectSeq(Indices(n), LAMBDA i : k.in_degree[i] # 0)
                 ELSE k.sorted,
      cyclic |-> cyclic,
      rest |-> IF cyclic THEN SelectSeq(Indices(n), LAMBDA i : k.in_degree[i] # 0) ELSE <<>>]

\* A transform: the names of its sources and the order() it got when it was
\* constructed.
NewTransform(sources, order) == [sources |-> sources, order |-> order]

\* _transform_functions.insert({name, t}): an existing entry is kept.
Insert(map, name, t) ==
  IF name \in DOMAIN map THEN map
  ELSE [n \in DOMAIN map \cup {name} |-> IF n = name THEN t ELSE map[n]]

\* custom_it->second = t, or insert when the name is new.
InsertOrAssign(map, name, t) ==
  [n \in DOMAIN map \cup {name} |-> IF n = name THEN t ELSE map[n]]

Erase(map, names) == [n \in DOMAIN map \ names |-> map[n]]

\* LuaCustomFunction::calculateAndAdd: the destination series is created when
\* absent and computed over the time axis of the linked source.
CalculateAndAdd(map, alias, t) ==
  [n \in DOMAIN map \cup {alias} |->
     IF n = alias THEN Series(map, t.sources[1]) ELSE map[n]]

\* TransformFunction::calculate on an existing destination.
Calculate(map, alias, t) ==
  IF alias \in DOMAIN map /\ t.sources[1] \in DOMAIN map
  THEN [map EXCEPT ![alias] = map[t.sources[1]]]
  ELSE map

\* LuaCustomFunction::calculateAndAdd throws when a source is not in the store.
Throws(map, t) == \E k \in 1..Len(t.sources) : t.sources[k] \notin DOMAIN map

\* The calculateAndAdd of the transform t named alias raises: a source is
\* missing, or its script fails at run time.
CalculationFails(map, alias, t) == Throws(map, t) \/ alias \in failing

\* The loop over sorted_snippets: every snippet is constructed (and gets the
\* next order()); one whose calculateAndAdd throws is reported and skipped.
RECURSIVE CreateSnippets(_, _, _)
CreateSnippets(snippets, sorted, g) ==
  IF sorted = <<>> THEN g
  ELSE LET s == snippets[Head(sorted)]
           made == NewTransform(s.sources, g.next_order)
           g1 == IF CalculationFails(g.store, s.alias, made)
                 THEN [g EXCEPT !.next_order = @ + 1]
                 ELSE [transforms |-> Insert(g.transforms, s.alias, made),
                       store |-> CalculateAndAdd(g.store, s.alias, made),
                       curves |-> g.curves \cup {s.alias},
                       next_order |-> g.next_order + 1]
       IN CreateSnippets(snippets, Tail(sorted), g1)

\* std::sort of the transforms by order().
RECURSIVE SortByOrder(_)
SortByOrder(tr) ==
  IF DOMAIN tr = {} THEN <<>>
  ELSE LET first == CHOOSE n \in DOMAIN tr : \A m \in DOMAIN tr : tr[n].order <= tr[m].order
       IN <<first>> \o SortByOrder(Erase(tr, {first}))

\* for (auto& function : transforms): calculate() unless the function is a
\* ReactiveLuaFunction. Nothing in the loop catches: a calculate() that
\* raises ends the loop, and the exception leaves updateDataAndReplot. log
\* holds the transforms whose calculate() the loop called.
RECURSIVE CalculateAll(_, _, _)
CalculateAll(map, tr, names) ==
  IF names = <<>> THEN [store |-> map, log |-> <<>>, thrown |-> FALSE]
  ELSE IF Head(names) \in reactive_functions THEN CalculateAll(map, tr, Tail(names))
  ELSE IF Head(names) \in failing
       THEN [store |-> map, log |-> <<Head(names)>>, thrown |-> TRUE]
       ELSE LET rest == CalculateAll(Calculate(map, Head(names), tr[Head(names)]), tr,
                                     Tail(names))
            IN [rest EXCEPT !.log = <<Head(names)>> \o @]

\* The orders in which a loop may visit the entries of _transform_functions.
IterationOrders(tr) ==
  {o \in [1..Cardinality(DOMAIN tr) -> DOMAIN tr] :
     \A i, j \in 1..Cardinality(DOMAIN tr) : i # j => o[i] # o[j]}

\* The loop over the transforms without the test of the sources.
DeletePass_EveryTransform(tr, order, to_be_deleted) ==
  to_be_deleted \cup {order[i] : i \in 1..Len(order)}

\* One run of the for loop over the transforms inside onDeleteMultipleCurves.
RECURSIVE DeletePass(_, _, _)
DeletePass(tr, order, to_be_deleted) ==
  IF Len(order) = 0 THEN to_be_deleted
  ELSE LET name == order[1]
           hit == \E k \in 1..Len(tr[name].sources) : tr[name].sources[k] \in to_be_deleted
       IN DeletePass(tr, SubSeq(order, 2, Len(order)),
                     IF hit THEN to_be_deleted \cup {name} ELSE to_be_deleted)

\* while (prev_size < to_be_deleted.size()) { prev_size = size; one pass }
DerivedClosure_OnePass(tr, order, to_be_deleted, prev_size) ==
  IF prev_size < Cardinality(to_be_deleted)
  THEN DeletePass(tr, order, to_be_deleted)
  ELSE to_be_deleted

RECURSIVE DerivedClosure(_, _, _, _)
DerivedClosure(tr, order, to_be_deleted, prev_size) ==
  IF prev_size < Cardinality(to_be_deleted)
  THEN DerivedClosure(tr, order, DeletePass(tr, order, to_be_deleted),
                      Cardinality(to_be_deleted))
  ELSE to_be_deleted

\* MainWindow::updateTimeSlider: the slider takes the visible range as its
\* limits and the tracker time is clamped to them.
UpdateTimeSlider(map, tracker) ==
  LET range == CalculateVisibleRangeX(map)
  IN [slider_min |-> range[1], slider_max |-> range[2],
      tracker |-> Min(Max(tracker, range[1]), range[2])]

\* MainWindow::updateDataAndReplot after the data of the streamer was moved:
\* the transforms sorted by order(), updateReactivePlots, the calculation of
\* every transform, then the tracker time (the latest time and a second
\* updateReactivePlots while streaming, updateTimeSlider otherwise). An
\* exception of the loop over the transforms leaves the function before the
\* tracker time and the slider are reached.
UpdateTransformsAndTracker(map, range, tr, tracker) ==
  LET names == SortByOrder(tr)
      reactive == UpdateReactivePlots(map, range, tracker)
      all == CalculateAll(map, tr, names)
      calculated == all.store
      slider == UpdateTimeSlider(calculated, tracker)
  IN IF all.thrown
     THEN [store |-> calculated, log |-> all.log, tracker |-> tracker,
           tw |-> reactive,
           tw_time |-> IF "s" \in DOMAIN map THEN tracker ELSE tw_time,
           slider_min |-> slider_min, slider_max |-> slider_max, thrown |-> TRUE]
     ELSE IF IsStreamingActive
     THEN [store |-> calculated, log |-> all.log, tracker |-> slider.slider_max,
           tw |-> UpdateReactivePlots(calculated, range, slider.slider_max),
           tw_time |-> IF "s" \in DOMAIN map THEN slider.slider_max ELSE tw_time,
           slider_min |-> slider_min, slider_max |-> slider_max, thrown |-> FALSE]
     ELSE [store |-> calculated, log |-> all.log, tracker |-> slider.tracker,
           tw |-> reactive,
           tw_time |-> IF "s" \in DOMAIN map THEN tracker ELSE tw_time,
           slider_min |-> slider.slider_min, slider_max |-> slider.slider_max,
           thrown |-> FALSE]


\* The transform graph: at most MaxOrder transform objects are constructed.
MaxOrder == 3

\* Names of the custom equations.
Aliases == {"A", "B", "C"}

\* The source lists (the linked source first) the three snippets of a layout
\* may have: a file series, other equations in chains listed in either
\* direction and in cycles, one equation named twice, an additional source.
SnippetSources ==
  [A |-> {<<"x">>, <<"B">>, <<"B", "B">>, <<"x", "C">>},
   B |-> {<<"x">>, <<"A">>, <<"C">>},
   C |-> {<<"x">>, <<"A">>}]

\* The equations the user makes in the function editor.
EditorAliases == {"A", "B"}

EditorSources == {<<"x">>, <<"A">>, <<"B">>}

\* The time axes a data file may hold for the series "x".
FilePoints == {<<1, 2>>}

\* Layout files with a customMathEquations element of three snippets.
GraphLayouts ==
  {[layout |-> 0, rel |-> FALSE,
    snippets |-> <<Snippet("A", a), Snippet("B", b), Snippet("C", c)>>] :
     a \in SnippetSources["A"], b \in SnippetSources["B"], c \in SnippetSources["C"]}

----
\* The history after construction (one snapshot) or after further zoom
\* changes made more than 100 ms apart (n snapshots, layout versions 1..n).
InitHistoryAt(n, elapsed) ==
  /\ undo_states = [i \in 1..n |-> XmlSaveState(i, TRUE)]
  /\ redo_states = <<>>
  /\ undo_timer = elapsed
  /\ disable_undo_logging = FALSE
  /\ layout = n
  /\ remove_time_offset = TRUE
  /\ edit_count = 0
  /\ popup_active = FALSE
  /\ hist = [op |-> "init", prev_op |-> "init", gap |-> 0, ulen |-> 0, rlen |-> 0,
             before |-> NoBefore]

\* The history right after construction: _undo_timer was just started.
InitHistory(n) == InitHistoryAt(n, 0)

\* No streamer has been started and no data has been loaded.
InitStreaming(window, spin) ==
  /\ active_streamer = FALSE
  /\ streaming_paused = FALSE
  /\ replot_timer = TimerOff
  /\ spin_value = spin
  /\ max_range_x = DblMax
  /\ store = <<>>
  /\ curve_list = {}
  /\ streamer_data = <<>>
  /\ streamer_max_range = DblMax
  /\ stream_clock = 0
  /\ notify_pending = 0
  /\ mutex_owner = "none"
  /\ pc = "idle"
  /\ added_curves = {}
  /\ tracker_time = 0
  /\ tw_window = window
  /\ tw_dst = <<>>
  /\ tw_max_range = DblMax

\* The timer of _tracker_delay is not running and the plots hold the first
\* tracker position.
InitDetail ==
  /\ tracker_delay = TimerOff
  /\ plot_tracker = 0
  /\ settles = 0
  /\ last_tick = "none"
  /\ failing = {}
  /\ reactive_functions = {}
  /\ strings = {}
  /\ user_defined = {}
  /\ plotted = {}
  /\ visible_range = <<0, 1, 1>>

\* No custom equation has been created and the time slider has its first limits.
InitGraph ==
  /\ transforms = <<>>
  /\ next_order = 0
  /\ eval_log = <<>>
  /\ cyclic_diag = FALSE
  /\ load_order = <<>>
  /\ cyclic_rest = <<>>
  /\ loaded = <<>>
  /\ deleted = {}
  /\ slider_min = 0
  /\ slider_max = 1
  /\ tw_time = 0
  /\ reactive_lua = [exists |-> FALSE, time |-> 0]
  /\ playing = FALSE
  /\ w_fresh = FALSE
  /\ InitDetail

\* No XY curve is plotted: the axes are empty and no window is set.
NoWindow == [windowed |-> FALSE, prev |-> 0, next |-> 0]

InitXY ==
  /\ xy_x = <<>>
  /\ xy_y = <<>>
  /\ xy_window = NoWindow
  /\ xy_tracker = 0
  /\ xy_cache = <<>>
  /\ xy_error = FALSE
  /\ xy_first = FALSE

InitUndo == (\E n \in InitHistoryLens : InitHistory(n)) /\ InitStreaming(<<1, 0>>, SpinMaximum) /\ InitGraph /\ InitXY

\* Streaming is started long after the last change of the layout: the undo
\* timer is past every value the code tests.
InitStream == InitHistoryAt(1, ElapsedCap) /\ InitStreaming(<<3, 1>>, SpinMaximum) /\ InitGraph /\ InitXY

\* Wall-clock time passes.
AdvanceTime(d) ==
  /\ pc = "idle"
  /\ undo_timer' = Min(undo_timer + d, ElapsedCap)
  /\ replot_timer' = IF replot_timer = TimerOff THEN TimerOff ELSE Max(replot_timer - d, 0)
  /\ tracker_delay' = IF tracker_delay = TimerOff THEN TimerOff ELSE Max(tracker_delay - d, 0)
  /\ UNCHANGED <<undo_states, redo_states, disable_undo_logging, layout, remove_time_offset,
                 edit_count, popup_active, hist>>
  /\ UNCHANGED <<active_streamer, streaming_paused, spin_value, max_range_x,
                 store, curve_list, streamer_data, streamer_max_range, stream_clock,
                 notify_pending, mutex_owner, pc, added_curves, tracker_time, tw_window,
                 tw_dst, tw_max_range>>
  /\ UNCHANGED <<graph_vars, window_vars, plot_tracker, settles, detail_rest>>

\* The timeout of the timer of _tracker_delay: the callback connected in the
\* constructor runs updatedDisplayTime and onUpdateLeftTableValues.
TrackerDelayTimeout ==
  /\ pc = "idle"
  /\ tracker_delay = 0
  /\ tracker_delay' = TimerOff
  /\ settles' = settles + 1
  /\ UNCHANGED <<undo_vars, stream_vars, graph_vars, window_vars, plot_tracker, detail_rest>>

\* A popup menu or modal dialog opens / closes.
PopupOpen ==
  /\ pc = "idle"
  /\ ~popup_active
  /\ popup_active' = TRUE
  /\ UNCHANGED <<undo_states, redo_states, undo_timer, disable_undo_logging, layout,
                 remove_time_offset, edit_count, hist, stream_vars>>
  /\ UNCHANGED <<graph_vars, window_vars, detail_vars>>

PopupClose ==
  /\ pc = "idle"
  /\ popup_active
  /\ popup_active' = FALSE
  /\ UNCHANGED <<undo_states, redo_states, undo_timer, disable_undo_logging, layout,
                 remove_time_offset, edit_count, hist, stream_vars>>
  /\ UNCHANGED <<graph_vars, window_vars, detail_vars>>

\* MainWindow::onPlotZoomChanged / on_buttonZoomOut_clicked / PlotWidget::undoableChange:
\* the plots have changed (a new layout version), then onUndoableChange().
OnPlotZoomChanged ==
  /\ pc = "idle"
  /\ edit_count < MaxEdits
  /\ edit_count' = edit_count + 1
  /\ layout' = FreshLayout
  /\ SetHistory(OnUndoableChange(CurrentHistory, XmlSaveState(FreshLayout, remove_time_offset)))
  /\ hist' = Hist("edit", undo_timer, NoBefore)
  /\ UNCHANGED <<remove_time_offset, popup_active, stream_vars>>
  /\ UNCHANGED <<graph_vars, window_vars, detail_vars>>

\* MainWindow::on_buttonRemoveTimeOffset_toggled, the user clicking the button.
OnButtonRemoveTimeOffsetToggled ==
  /\ pc = "idle"
  /\ edit_count < MaxEdits
  /\ edit_count' = edit_count + 1
  /\ remove_time_offset' = ~remove_time_offset
  /\ SetHistory(OnUndoableChange(CurrentHistory, XmlSaveState(layout, ~remove_time_offset)))
  /\ hist' = Hist("edit", undo_timer, NoBefore)
  /\ UNCHANGED <<layout, popup_active, stream_vars>>
  /\ UNCHANGED <<graph_vars, window_vars, detail_vars>>

\* MainWindow::onUndoInvoked
OnUndoInvoked ==
  /\ pc = "idle"
  /\ Len(redo_states) < MaxRedoDepth
  /\ IF popup_active \/ Len(undo_states) <= 1
     THEN UNCHANGED vars
     ELSE LET h1 == [CurrentHistory EXCEPT !.disable = TRUE]
              h2 == UndoStacks(h1)
              ld == XmlLoadState(h2, Last(h2.undo), remove_time_offset)
          IN /\ SetHistory([ld.hist_ EXCEPT !.disable = FALSE])
             /\ layout' = ld.layout
             /\ remove_time_offset' = ld.rel
             /\ hist' = Hist("undo", 0, Before)
             /\ UNCHANGED <<edit_count, popup_active, stream_vars>>
  /\ UNCHANGED <<graph_vars, window_vars, detail_vars>>

\* MainWindow::onRedoInvoked
OnRedoInvoked ==
  /\ pc = "idle"
  /\ IF popup_active \/ Len(redo_states) = 0
     THEN UNCHANGED vars
     ELSE LET h1 == [CurrentHistory EXCEPT !.disable = TRUE]
              h2 == RedoStacks(h1)
              ld == XmlLoadState(h2, Last(h1.redo), remove_time_offset)
          IN /\ SetHistory([ld.hist_ EXCEPT !.disable = FALSE])
             /\ layout' = ld.layout
             /\ remove_time_offset' = ld.rel
             /\ hist' = Hist("redo", 0, NoBefore)
             /\ UNCHANGED <<edit_count, popup_active, stream_vars>>
  /\ UNCHANGED <<graph_vars, window_vars, detail_vars>>

\* The curves the plots of a layout document name (the name of a curve, or
\* curve_x and curve_y of the curve of an XY plot), none in a document
\* without plots.
Curves(doc) == IF "curves" \in DOMAIN doc THEN doc.curves ELSE {}

\* missing_curves of checkAllCurvesFromLayout: a curve is missing when the
\* numeric series have no such name, and also when the string series have
\* none.
MissingCurves(map, strs, curves) == {c \in curves : c \notin DOMAIN map \/ c \notin strs}

\* PlotDataMapRef::addNumeric for every name: an empty numeric series is
\* created where the numeric series have none of that name.
AddNumeric(map, names) ==
  [n \in DOMAIN map \cup names |-> IF n \in DOMAIN map THEN map[n] ELSE <<>>]

\* The answers the user can give in checkAllCurvesFromLayout: the dialog is
\* shown when curves are missing, and "Create empty placeholders" is TRUE.
PlaceholderAnswers(missing) == IF missing = {} THEN {FALSE} ELSE BOOLEAN

\* The end of MainWindow::loadLayoutFromFile for a layout file holding doc:
\* xmlLoadState(domDocument), then the undo stack is reset to the document.
LoadLayoutFromFile(doc) ==
  /\ pc = "idle"
  /\ next_order + Len(Snippets(doc)) <= MaxOrder
  /\ LET snippets == Snippets(doc)
         order == SortSnippets(snippets)
         g == CreateSnippets(snippets, order.sorted,
                             [transforms |-> transforms, store |-> store,
                              curves |-> curve_list, next_order |-> next_order])
         ld == XmlLoadState(CurrentHistory, doc, remove_time_offset)
         missing == MissingCurves(g.store, strings, Curves(doc))
     IN /\ transforms' = g.transforms
        /\ \E placeholders \in PlaceholderAnswers(missing) :
             /\ store' = IF placeholders THEN AddNumeric(g.store, missing) ELSE g.store
             /\ curve_list' = IF placeholders THEN g.curves \cup missing ELSE g.curves
        /\ next_order' = g.next_order
        /\ IF snippets = <<>>
           THEN UNCHANGED <<cyclic_diag, load_order, cyclic_rest, loaded>>
           ELSE /\ cyclic_diag' = order.cyclic
                /\ load_order' = [k \in 1..Len(order.sorted) |-> snippets[order.sorted[k]].alias]
                /\ cyclic_rest' = order.rest
                /\ loaded' = snippets
        /\ SetHistory([ld.hist_ EXCEPT !.undo = <<doc>>])
        /\ layout' = ld.layout
        /\ remove_time_offset' = ld.rel
        /\ hist' = Hist("load", 0, NoBefore)
  /\ UNCHANGED <<edit_count, popup_active, active_streamer, streaming_paused, replot_timer,
                 spin_value, max_range_x, streamer_data, streamer_max_range, stream_clock,
                 notify_pending, mutex_owner, pc, added_curves, tracker_time, tw_window,
                 tw_dst, tw_max_range, eval_log, deleted, slider_min, slider_max>>
  /\ UNCHANGED <<window_vars, detail_vars>>

\* MainWindow::deleteAllData: the series of every kind, the transforms and the
\* curve list are cleared, and so is the history.
DeleteAllData ==
  /\ pc = "idle"
  /\ undo_states' = <<>>
  /\ redo_states' = <<>>
  /\ hist' = Hist("delete", 0, NoBefore)
  /\ store' = <<>>
  /\ transforms' = <<>>
  /\ curve_list' = {}
  /\ UNCHANGED <<undo_timer, disable_undo_logging, layout, remove_time_offset, edit_count,
                 popup_active, active_streamer, streaming_paused, replot_timer,
                 spin_value, max_range_x, streamer_data, streamer_max_range, stream_clock,
                 notify_pending, mutex_owner, pc, added_curves, tracker_time, tw_window,
                 tw_dst, tw_max_range, next_order, eval_log, cyclic_diag, load_order, cyclic_rest, loaded, deleted,
                 slider_min, slider_max>>
  /\ strings' = {}
  /\ user_defined' = {}
  /\ plotted' = {}
  /\ reactive_functions' = {}
  /\ UNCHANGED <<window_vars, settle_vars, play_vars, failing, visible_range>>

NextUndo ==
  \/ \E d \in TimeSteps : AdvanceTime(d)
  \/ PopupOpen
  \/ PopupClose
  \/ OnPlotZoomChanged
  \/ OnButtonRemoveTimeOffsetToggled
  \/ OnUndoInvoked
  \/ OnRedoInvoked
  \/ \E doc \in LayoutFiles : LoadLayoutFromFile(doc)
  \/ DeleteAllData

SpecUndo == InitUndo /\ [][NextUndo]_vars

----
\* Steps that record an edit made by the user.
EditStep == OnPlotZoomChanged \/ OnButtonRemoveTimeOffsetToggled

\* The live state as a document.
LiveDoc == XmlSaveState(layout, remove_time_offset)

\* C1: of two consecutive recorded edits, a second one less than 100 ms after
\* the first replaces the first's snapshot (the stack keeps its size and its
\* older entries); a second one more than 100 ms after the first leaves both
\* snapshots on the stack, the first right below the second, and an Undo made
\* next makes the first edit's snapshot the live state and moves the second
\* edit's snapshot to the redo stack.
C1_UndoCoalescing ==
  /\ [][(EditStep /\ hist.op = "edit") =>
          /\ undo_timer < 100 =>
               /\ Len(undo_states') = Len(undo_states)
               /\ Front(undo_states') = Front(undo_states)
               /\ Last(undo_states') = LiveDoc'
          /\ undo_timer > 100 =>
               /\ Len(undo_states') >= 2
               /\ Last(undo_states') = LiveDoc'
               /\ Last(Front(undo_states')) = Last(undo_states)]_vars
  /\ [][(OnUndoInvoked /\ ~popup_active /\ hist.op = "edit" /\ hist.prev_op = "edit"
           /\ hist.gap > 100) =>
          /\ LiveDoc' = Last(Front(undo_states))
          /\ Last(redo_states') = Last(undo_states)
          /\ Last(undo_states') = Last(Front(undo_states))]_vars

\* Two consecutive edits 50 ms apart have left the stack at the size it
\* had after the first one, above at least one older snapshot.
C1_Witness ==
  /\ hist.op = "edit" /\ hist.prev_op = "edit"
  /\ hist.gap > 0 /\ hist.gap < 100
  /\ Len(undo_states) = hist.ulen /\ hist.ulen >= 2
  /\ Last(undo_states) = LiveDoc

\* C2: the undo stack and the redo stack never hold more than 100 snapshots,
\* and an edit that pushes onto an undo stack of 100 entries drops the oldest
\* entry and keeps all the others.
C2_BoundedHistory ==
  /\ [](Len(undo_states) <= 100 /\ Len(redo_states) <= 100)
  /\ [][(EditStep /\ Len(undo_states) = 100 /\ undo_timer >= 100) =>
          undo_states' = Append(Tail(undo_states), LiveDoc')]_vars

\* A full stack whose oldest snapshot has been evicted by an edit.
C2_Witness ==
  /\ Len(undo_states) = 100
  /\ undo_states[1].layout = 2
  /\ hist.op = "edit" /\ hist.ulen = 100

\* C3: every recorded edit, appended or coalesced, leaves the redo stack
\* empty; so does the notification recorded while a layout file is loaded.
C3_EditClearsRedo ==
  [][(EditStep \/ (\E doc \in LayoutFiles :
                      doc.rel # remove_time_offset /\ LoadLayoutFromFile(doc)))
       => redo_states' = <<>>]_vars

\* An edit has been recorded while the redo stack held snapshots.
C3_Witness == hist.op = "edit" /\ hist.rlen > 0 /\ redo_states = <<>>

\* C4: with at least two snapshots and no popup, Undo moves the top snapshot
\* to the top of the redo stack and applies the new top as the live state;
\* with fewer than two snapshots it changes neither stack nor the live state.
C4_Undo ==
  [][OnUndoInvoked =>
       /\ (Len(undo_states) >= 2 /\ ~popup_active) =>
            /\ undo_states' = Front(undo_states)
            /\ redo_states' = Append(redo_states, Last(undo_states))
            /\ LiveDoc' = Last(Front(undo_states))
       /\ Len(undo_states) < 2 =>
            UNCHANGED <<undo_states, redo_states, layout, remove_time_offset>>]_vars

\* An Undo has acted on a stack of at least two snapshots.
C4_Witness ==
  /\ hist.op = "undo" /\ hist.ulen >= 2
  /\ redo_states # <<>> /\ Last(redo_states) = Last(hist.before.undo)
  /\ LiveDoc = Last(undo_states)

\* C5: a Redo that directly follows an effective Undo restores both stacks
\* and the live state to what they were before the Undo; a Redo with an
\* empty redo stack changes nothing.
C5_RedoInvertsUndo ==
  [][OnRedoInvoked =>
       /\ (hist.op = "undo" /\ ~popup_active) =>
            /\ undo_states' = hist.before.undo
            /\ redo_states' = hist.before.redo
            /\ layout' = hist.before.layout
            /\ remove_time_offset' = hist.before.rel
       /\ redo_states = <<>> => UNCHANGED vars]_vars

\* A Redo has acted right after an Undo.
C5_Witness ==
  /\ hist.op = "redo" /\ hist.prev_op = "undo" /\ hist.rlen >= 1
  /\ Len(undo_states) = hist.ulen + 1

----
\* The streaming data path.

\* The streamer's own thread: under the streamer's mutex it appends the next
\* point to its dataMap() and emits dataReceived (queued to the main thread).
StreamerPush(step) ==
  /\ active_streamer
  /\ mutex_owner = "none"
  /\ stream_clock + step <= MaxTime
  /\ stream_clock' = stream_clock + step
  /\ streamer_data' =
       [n \in DOMAIN streamer_data \cup {"s"} |->
          IF n = "s"
          THEN PushBack(IF "s" \in DOMAIN streamer_data THEN streamer_data["s"] ELSE <<>>,
                        stream_clock + step, streamer_max_range)
          ELSE streamer_data[n]]
  /\ notify_pending' = Min(notify_pending + 1, MaxNotify)
  /\ UNCHANGED <<undo_vars, active_streamer, streaming_paused, replot_timer, spin_value,
                 max_range_x, store, curve_list, streamer_max_range, mutex_owner, pc,
                 added_curves, tracker_time, tw_window, tw_dst, tw_max_range>>
  /\ UNCHANGED <<graph_vars, window_vars, detail_vars>>

\* The dataReceived handler connected in MainWindow::initializePlugins.
OnDataReceived_Restart ==
  /\ pc = "idle"
  /\ notify_pending > 0
  /\ notify_pending' = notify_pending - 1
  /\ replot_timer' = IF IsStreamingActive THEN ReplotMs ELSE replot_timer
  /\ UNCHANGED <<undo_vars, active_streamer, streaming_paused, spin_value, max_range_x, store,
                 curve_list, streamer_data, streamer_max_range, stream_clock, mutex_owner, pc,
                 added_curves, tracker_time, tw_window, tw_dst, tw_max_range>>
  /\ UNCHANGED <<graph_vars, window_vars, detail_vars>>

OnDataReceived ==
  /\ pc = "idle"
  /\ notify_pending > 0
  /\ notify_pending' = notify_pending - 1
  /\ replot_timer' = IF IsStreamingActive /\ replot_timer = TimerOff
                     THEN ReplotMs ELSE replot_timer
  /\ UNCHANGED <<undo_vars, active_streamer, streaming_paused, spin_value, max_range_x, store,
                 curve_list, streamer_data, streamer_max_range, stream_clock, mutex_owner, pc,
                 added_curves, tracker_time, tw_window, tw_dst, tw_max_range>>
  /\ UNCHANGED <<graph_vars, window_vars, detail_vars>>

\* MainWindow::startStreamingPlugin up to the lock_guard: start() fails, or
\* succeeds, with the plugin having declared its series "s" or not.
StartStreamingPlugin(started, declared) ==
  /\ pc = "idle"
  /\ ~active_streamer
  /\ IF started
     THEN /\ active_streamer' = TRUE
          /\ streamer_data' = IF declared /\ "s" \notin DOMAIN streamer_data
                              THEN [n \in DOMAIN streamer_data \cup {"s"} |->
                                      IF n = "s" THEN <<>> ELSE streamer_data[n]]
                              ELSE streamer_data
          /\ mutex_owner' = "main"
          /\ pc' = "start_import"
     ELSE UNCHANGED <<active_streamer, streamer_data, mutex_owner, pc>>
  /\ UNCHANGED <<undo_vars, streaming_paused, replot_timer, spin_value, max_range_x, store,
                 curve_list, streamer_max_range, stream_clock, notify_pending, added_curves,
                 tracker_time, tw_window, tw_dst, tw_max_range>>
  /\ UNCHANGED <<graph_vars, window_vars, detail_vars>>

\* importPlotDataMap(dataMap(), false) inside the lock_guard: MoveData ...
StartImportMoveData ==
  /\ pc = "start_import"
  /\ LET r == MoveData(streamer_data, store, max_range_x)
     IN /\ store' = r.dst
        /\ streamer_data' = r.src
        /\ added_curves' = r.added
  /\ pc' = "start_curvelist"
  /\ UNCHANGED <<undo_vars, active_streamer, streaming_paused, replot_timer, spin_value,
                 max_range_x, curve_list, streamer_max_range, stream_clock, notify_pending,
                 mutex_owner, tracker_time, tw_window, tw_dst, tw_max_range>>
  /\ UNCHANGED <<graph_vars, window_vars, detail_vars>>

\* ... then _curvelist_widget->addCurve for every added curve, still inside
\* the lock_guard.
StartImportCurveList ==
  /\ pc = "start_curvelist"
  /\ curve_list' = curve_list \cup added_curves
  /\ pc' = "start_finish"
  /\ UNCHANGED <<undo_vars, active_streamer, streaming_paused, replot_timer, spin_value,
                 max_range_x, store, streamer_data, streamer_max_range, stream_clock,
                 notify_pending, mutex_owner, added_curves, tracker_time, tw_window, tw_dst,
                 tw_max_range>>
  /\ UNCHANGED <<graph_vars, window_vars, detail_vars>>

\* The rest of startStreamingPlugin: the lock is released, the pause button is
\* unchecked, on_buttonStreamingPause_toggled(false) (which releases the play
\* button) and on_streamingSpinBox_valueChanged(value) are called.
StartFinish ==
  /\ pc = "start_finish"
  /\ mutex_owner' = "none"
  /\ streaming_paused' = FALSE
  /\ max_range_x' = RealRange(spin_value)
  /\ store' = SetMaximumRangeX(store, RealRange(spin_value))
  /\ streamer_max_range' = RealRange(spin_value)
  /\ streamer_data' = SetMaximumRangeX(streamer_data, RealRange(spin_value))
  /\ added_curves' = {}
  /\ pc' = "idle"
  /\ UNCHANGED <<undo_vars, active_streamer, replot_timer, spin_value, curve_list,
                 stream_clock, notify_pending, tracker_time, tw_window, tw_dst,
                 tw_max_range>>
  /\ playing' = FALSE
  /\ UNCHANGED <<graph_vars, window_rest, detail_vars>>

\* MainWindow::stopStreamingPlugin (Stop button, or the streamer's closed signal).
StopStreamingPlugin ==
  /\ pc = "idle"
  /\ active_streamer
  /\ streaming_paused \/ edit_count < MaxEdits
  /\ IF streaming_paused
     THEN \* setChecked(false) calls on_buttonStreamingPause_toggled(false)
          /\ SetHistory(OnButtonStreamingPauseToggled(CurrentHistory, FALSE, active_streamer))
          /\ UNCHANGED <<edit_count, hist>>
     ELSE /\ SetHistory(OnButtonStreamingPauseToggled(CurrentHistory, TRUE, active_streamer))
          /\ edit_count' = edit_count + 1
          /\ hist' = Hist("edit", undo_timer, NoBefore)
  /\ streaming_paused' = FALSE
  /\ active_streamer' = FALSE
  /\ max_range_x' = DblMax
  /\ store' = SetMaximumRangeX(store, DblMax)
  /\ UNCHANGED <<layout, remove_time_offset, popup_active, replot_timer, spin_value,
                 curve_list, streamer_data, streamer_max_range, stream_clock, notify_pending,
                 mutex_owner, pc, added_curves, tracker_time, tw_window, tw_dst, tw_max_range>>
  /\ playing' = IF streaming_paused THEN FALSE ELSE playing
  /\ UNCHANGED <<graph_vars, window_rest, detail_vars>>

\* MainWindow::on_streamingToggled / the pause button: the button is toggled
\* and on_buttonStreamingPause_toggled runs; it releases the play button when
\* streaming resumes.
OnStreamingToggled ==
  /\ pc = "idle"
  /\ active_streamer
  /\ streaming_paused \/ edit_count < MaxEdits
  /\ streaming_paused' = ~streaming_paused
  /\ SetHistory(OnButtonStreamingPauseToggled(CurrentHistory, ~streaming_paused,
                                              active_streamer))
  /\ IF ~streaming_paused
     THEN edit_count' = edit_count + 1 /\ hist' = Hist("edit", undo_timer, NoBefore)
     ELSE UNCHANGED <<edit_count, hist>>
  /\ UNCHANGED <<layout, remove_time_offset, popup_active, active_streamer, replot_timer,
                 spin_value, max_range_x, store, curve_list, streamer_data,
                 streamer_max_range, stream_clock, notify_pending, mutex_owner, pc,
                 added_curves, tracker_time, tw_window, tw_dst, tw_max_range>>
  /\ playing' = IF streaming_paused THEN FALSE ELSE playing
  /\ UNCHANGED <<graph_vars, window_rest, detail_vars>>

\* MainWindow::on_streamingSpinBox_valueChanged
OnStreamingSpinBoxValueChanged_NoGuard(value) ==
  /\ pc = "idle"
  /\ value # spin_value
  /\ spin_value' = value
  /\ max_range_x' = RealRange(value)
  /\ store' = SetMaximumRangeX(store, RealRange(value))
  /\ IF active_streamer
     THEN /\ streamer_max_range' = RealRange(value)
          /\ streamer_data' = SetMaximumRangeX(streamer_data, RealRange(value))
     ELSE UNCHANGED <<streamer_max_range, streamer_data>>
  /\ UNCHANGED <<undo_vars, active_streamer, streaming_paused, replot_timer, curve_list,
                 stream_clock, notify_pending, mutex_owner, pc, added_curves, tracker_time,
                 tw_window, tw_dst, tw_max_range>>
  /\ UNCHANGED <<graph_vars, window_vars, detail_vars>>

OnStreamingSpinBoxValueChanged(value) ==
  /\ pc = "idle"
  /\ value # spin_value
  /\ spin_value' = value
  /\ IF IsStreamingActive
     THEN /\ max_range_x' = RealRange(value)
          /\ store' = SetMaximumRangeX(store, RealRange(value))
          /\ streamer_max_range' = RealRange(value)
          /\ streamer_data' = SetMaximumRangeX(streamer_data, RealRange(value))
     ELSE UNCHANGED <<max_range_x, store, streamer_max_range, streamer_data>>
  /\ UNCHANGED <<undo_vars, active_streamer, streaming_paused, replot_timer, curve_list,
                 stream_clock, notify_pending, mutex_owner, pc, added_curves, tracker_time,
                 tw_window, tw_dst, tw_max_range>>
  /\ UNCHANGED <<graph_vars, window_vars, detail_vars>>

\* The timeout of _replot_timer calls updateDataAndReplot(false): the timer is
\* stopped and, when a streamer is active, the lock_guard is taken.
ReplotTimerTimeout ==
  /\ pc = "idle"
  /\ replot_timer = 0
  /\ replot_timer' = TimerOff
  /\ IF active_streamer
     THEN mutex_owner' = "main" /\ pc' = "update_move"
     ELSE mutex_owner' = mutex_owner /\ pc' = "update_rest"
  /\ added_curves' = {}
  /\ UNCHANGED <<undo_vars, active_streamer, streaming_paused, spin_value, max_range_x, store,
                 curve_list, streamer_data, streamer_max_range, stream_clock, notify_pending,
                 tracker_time, tw_window, tw_dst, tw_max_range>>
  /\ UNCHANGED <<graph_vars, window_vars, detail_vars>>

\* updateDataAndReplot: MoveData inside the lock_guard, released at the end of
\* the block.
UpdateMoveData ==
  /\ pc = "update_move"
  /\ LET r == MoveData(streamer_data, store, max_range_x)
     IN /\ store' = r.dst
        /\ streamer_data' = r.src
        /\ added_curves' = r.added
  /\ mutex_owner' = "none"
  /\ pc' = "update_rest"
  /\ UNCHANGED <<undo_vars, active_streamer, streaming_paused, replot_timer, spin_value,
                 max_range_x, curve_list, streamer_max_range, stream_clock, notify_pending,
                 tracker_time, tw_window, tw_dst, tw_max_range>>
  /\ UNCHANGED <<graph_vars, window_vars, detail_vars>>

\* updateDataAndReplot after the lock_guard: the curve list, the retention
\* horizon, the reactive plots and the tracker time.
UpdateRest ==
  /\ pc = "update_rest"
  /\ curve_list' = curve_list \cup added_curves
  /\ LET range == IF active_streamer THEN RealRange(spin_value) ELSE max_range_x
         map == IF active_streamer THEN SetMaximumRangeX(store, range) ELSE store
         r == UpdateTransformsAndTracker(map, range, transforms, tracker_time)
     IN /\ max_range_x' = range
        /\ store' = r.store
        /\ tracker_time' = r.tracker
        /\ tw_dst' = r.tw.points
        /\ tw_max_range' = r.tw.max_range
        /\ tw_time' = r.tw_time
        /\ eval_log' = r.log
        /\ slider_min' = r.slider_min
        /\ slider_max' = r.slider_max
        /\ IF IsStreamingActive /\ ~r.thrown
           THEN tracker_delay' = TrackerDelayMs /\ settles' = 0 /\ plot_tracker' = r.tracker
           ELSE UNCHANGED <<tracker_delay, settles, plot_tracker>>
        /\ UNCHANGED detail_rest
  /\ cyclic_diag' = FALSE
  /\ added_curves' = {}
  /\ pc' = "idle"
  /\ UNCHANGED <<undo_vars, active_streamer, streaming_paused, replot_timer, spin_value,
                 streamer_data, streamer_max_range, stream_clock, notify_pending, mutex_owner,
                 tw_window, transforms, next_order, load_order, cyclic_rest, loaded,
                 deleted>>
  /\ UNCHANGED <<xy_x, xy_y, xy_window, xy_tracker, xy_cache, xy_error, reactive_lua, playing,
                 xy_first, w_fresh>>

\* MainWindow::onTimeSlider_valueChanged: the user moves the time slider (the
\* play widget is enabled only while streaming is not running).
OnTimeSliderValueChanged(t) ==
  /\ pc = "idle"
  /\ ~IsStreamingActive
  /\ t # tracker_time
  /\ slider_min <= t /\ t <= slider_max
  /\ tracker_time' = t
  /\ OnTrackerTimeUpdated(store, t)
  /\ UNCHANGED <<undo_vars, active_streamer, streaming_paused, replot_timer, spin_value,
                 max_range_x, store, curve_list, streamer_data, streamer_max_range,
                 stream_clock, notify_pending, mutex_owner, pc, added_curves, tw_window>>
  /\ UNCHANGED <<graph_vars, xy_x, xy_y, xy_window, playing, xy_first, w_fresh>>

NextStream ==
  \/ \E d \in StreamTimeSteps : AdvanceTime(d)
  \/ \E step \in StreamSteps : StreamerPush(step)
  \/ OnDataReceived
  \/ \E started, declared \in BOOLEAN : StartStreamingPlugin(started, declared)
  \/ StartImportMoveData
  \/ StartImportCurveList
  \/ StartFinish
  \/ StopStreamingPlugin
  \/ OnStreamingToggled
  \/ \E value \in SpinChoices : OnStreamingSpinBoxValueChanged(value)
  \/ ReplotTimerTimeout
  \/ UpdateMoveData
  \/ UpdateRest
  \/ \E t \in 0..MaxTime : OnTimeSliderValueChanged(t)

SpecStream == InitStream /\ [][NextStream]_vars

----
\* Claims about the streaming data path.

IsSuffix(s, t) == Len(s) <= Len(t) /\ s = SubSeq(t, Len(t) - Len(s) + 1, Len(t))

\* The points a step of the owner thread appends to series n of the store.
Appended(n) == IF pc \in {"start_import", "update_move"} THEN Series(streamer_data, n) ELSE <<>>

\* C7: while the store's retention horizon is finite, every series of the
\* store spans at most the horizon after any step that appends to it (the
\* drain of the streamer's data included), what a step leaves of a series is a
\* suffix of its old points followed by the appended ones that keeps the
\* latest point, and the destination of the Time Window transform takes the
\* horizon of its source and spans at most that horizon.
C7_EvictionInvariant ==
  /\ [](max_range_x < DblMax => \A n \in DOMAIN store : Span(store[n]) <= max_range_x)
  /\ [](tw_max_range < DblMax => Span(tw_dst) <= tw_max_range)
  /\ [][\A n \in DOMAIN store' :
          LET all == Series(store, n) \o Appended(n)
          IN /\ IsSuffix(store'[n], all)
             /\ all # <<>> => store'[n] # <<>>]_vars
  /\ [][tw_dst' # tw_dst \/ tw_max_range' # tw_max_range => tw_max_range' = max_range_x']_vars

C7_Witness ==
  /\ max_range_x < DblMax
  /\ "s" \in DOMAIN store
  /\ Len(store["s"]) >= 2
  /\ store["s"][1] > 1
  /\ Span(store["s"]) = max_range_x
  /\ pc = "idle"
  /\ tw_max_range = max_range_x
  /\ tw_dst = store["s"]

\* C8: stopStreamingPlugin leaves no active streamer and an infinite retention
\* horizon, and every later step taken while no streamer is active (a replot
\* timer firing, a dataReceived notification, a change of the spin box) leaves
\* the store, the streamer's pending data and the horizon as they are.
C8_StopStreaming ==
  /\ [][active_streamer /\ ~active_streamer' => max_range_x' = DblMax]_vars
  /\ [][~active_streamer /\ ~active_streamer' =>
          /\ max_range_x = DblMax
          /\ max_range_x' = DblMax
          /\ store' = store
          /\ streamer_data' = streamer_data]_vars

\* A recompute runs after the stop, with data still pending in the stopped
\* streamer and a finite value in the spin box.
C8_Witness ==
  /\ ~active_streamer
  /\ pc = "update_rest"
  /\ Series(streamer_data, "s") # <<>>
  /\ spin_value # SpinMaximum
  /\ max_range_x = DblMax

\* C9: the owner thread copies the streamer's pending data into the store only
\* while it holds the streamer's mutex, and no curve-list update, transform
\* evaluation or tracker update runs while the mutex is held.
C9_MutexOnlyForCopy ==
  /\ [][(pc \in {"start_import", "update_move"} /\ pc' # pc) => (mutex_owner = "main")]_vars
  /\ [][curve_list' # curve_list \/ tw_dst' # tw_dst \/ tracker_time' # tracker_time
          => mutex_owner = "none"]_vars

\* C10: a dataReceived notification starts the 40 ms single-shot replot timer
\* only when streaming is active and the timer is not pending, and otherwise
\* leaves the timer alone; updateDataAndReplot starts only when the timer
\* fires, and it leaves no timer pending.
C10_ReplotCoalescing ==
  /\ [][notify_pending' < notify_pending =>
          IF IsStreamingActive /\ replot_timer = TimerOff
          THEN replot_timer' = ReplotMs
          ELSE replot_timer' = replot_timer]_vars
  /\ [][pc = "idle" /\ pc' \in {"update_move", "update_rest"} =>
          replot_timer = 0 /\ replot_timer' = TimerOff]_vars
  /\ [][replot_timer = TimerOff /\ replot_timer' # TimerOff =>
          notify_pending' < notify_pending /\ IsStreamingActive]_vars
  /\ [](pc \in {"update_move", "update_rest"} => replot_timer = TimerOff)

\* A notification is queued while the timer started by an earlier one is
\* still pending.
C10_Witness ==
  /\ IsStreamingActive
  /\ replot_timer # TimerOff
  /\ notify_pending > 0
  /\ pc = "idle"

----
\* The transform graph: data files, the function editor, refresh, deletion
\* and layouts with custom equations, with no streamer running.

ClearSeries(map, names) == [n \in DOMAIN map |-> IF n \in names THEN <<>> ELSE map[n]]

\* MainWindow::loadDataFromFile with "merge" unchecked: importPlotDataMap clears
\* the series the file holds again and moves the data in, the destination
\* of every transform is cleared, updateDataAndReplot recalculates, and the
\* slider is put at its minimum: when that changes its value, its
\* valueChanged signal runs onTimeSlider_valueChanged. file holds the numeric
\* series of the file and string_names the names of its string series.
LoadFile(file, string_names) ==
  /\ pc = "idle"
  /\ ~active_streamer
  /\ LET moved == MoveData(file, ClearSeries(store, DOMAIN file), max_range_x)
         cleaned == ClearSeries(moved.dst, DOMAIN transforms)
         r == UpdateTransformsAndTracker(cleaned, max_range_x, transforms, tracker_time)
     IN /\ store' = r.store
        /\ strings' = strings \cup string_names
        /\ curve_list' = curve_list \cup moved.added \cup (string_names \ strings)
        /\ eval_log' = r.log
        /\ slider_min' = r.slider_min
        /\ slider_max' = r.slider_max
        /\ tracker_time' = IF r.thrown THEN r.tracker ELSE r.slider_min
        /\ IF r.tracker # r.slider_min /\ ~r.thrown
           THEN LET tw == UpdateReactivePlots(r.store, max_range_x, r.slider_min)
                IN /\ tw_dst' = tw.points
                   /\ tw_max_range' = tw.max_range
                   /\ tw_time' = IF "s" \in DOMAIN r.store THEN r.slider_min ELSE r.tw_time
                   /\ tracker_delay' = TrackerDelayMs
                   /\ settles' = 0
                   /\ plot_tracker' = r.slider_min
           ELSE /\ tw_dst' = r.tw.points
                /\ tw_max_range' = r.tw.max_range
                /\ tw_time' = r.tw_time
                /\ UNCHANGED <<tracker_delay, settles, plot_tracker>>
        /\ UNCHANGED <<play_vars, batch_vars, user_defined, range_vars>>
  /\ cyclic_diag' = FALSE
  /\ playing' = FALSE
  /\ UNCHANGED <<undo_vars, active_streamer, streaming_paused, replot_timer, spin_value,
                 max_range_x, streamer_data, streamer_max_range, stream_clock, notify_pending,
                 mutex_owner, pc, added_curves, tw_window, transforms, next_order, load_order, cyclic_rest,
                 loaded, deleted>>
  /\ UNCHANGED <<xy_x, xy_y, xy_window, xy_tracker, xy_cache, xy_error, reactive_lua, xy_first,
                 w_fresh>>

\* loadDataFromFile of a file that holds the numeric series "x".
LoadDataFromFile(points) == LoadFile([n \in {"x"} |-> points], {})

\* The loop of onCustomPlotCreated over the custom plots: the existing data
\* of the alias is cleared, calculateAndAdd runs (a failure is caught and
\* reported), and the transform is inserted or replaces the one of the same
\* name.
RECURSIVE CreateCustomPlots(_, _)
CreateCustomPlots(plots, g) ==
  IF plots = <<>> THEN g
  ELSE LET plot == Head(plots)
           made == NewTransform(plot.sources, g.next_order)
           cleared == ClearSeries(g.store, {plot.alias})
           g1 == [transforms |-> InsertOrAssign(g.transforms, plot.alias, made),
                  store |-> IF CalculationFails(cleared, plot.alias, made) THEN cleared
                            ELSE CalculateAndAdd(cleared, plot.alias, made),
                  curves |-> g.curves \cup {plot.alias},
                  next_order |-> g.next_order + 1]
       IN CreateCustomPlots(Tail(plots), g1)

\* MainWindow::onCustomPlotCreated for the custom plots made by the function
\* editor, which offers the series of the store as sources.
OnCustomPlotsCreated(plots) ==
  /\ pc = "idle"
  /\ plots # <<>>
  /\ next_order + Len(plots) <= MaxOrder
  /\ \A i \in 1..Len(plots) :
        \A k \in 1..Len(plots[i].sources) : plots[i].sources[k] \in DOMAIN store
  /\ LET g == CreateCustomPlots(plots, [transforms |-> transforms, store |-> store,
                                        curves |-> curve_list, next_order |-> next_order])
     IN /\ store' = g.store
        /\ transforms' = g.transforms
        /\ curve_list' = g.curves
        /\ next_order' = g.next_order
  /\ UNCHANGED <<undo_vars, active_streamer, streaming_paused, replot_timer, spin_value,
                 max_range_x, streamer_data, streamer_max_range, stream_clock, notify_pending,
                 mutex_owner, pc, added_curves, tracker_time, tw_window, tw_dst, tw_max_range,
                 eval_log, cyclic_diag, load_order, cyclic_rest, loaded, deleted, slider_min, slider_max>>
  /\ UNCHANGED <<window_vars, detail_vars>>

\* onCustomPlotCreated for one custom plot.
OnCustomPlotCreated(alias, sources) == OnCustomPlotsCreated(<<Snippet(alias, sources)>>)

\* MainWindow::onRefreshCustomPlot: calculateAndAdd of the named equation, then
\* updateDataAndReplot; an exception of calculateAndAdd ends the handler.
OnRefreshCustomPlot(plot_name) ==
  /\ pc = "idle"
  /\ ~active_streamer
  /\ plot_name \in DOMAIN transforms
  /\ ~CalculationFails(store, plot_name, transforms[plot_name])
  /\ LET added == CalculateAndAdd(store, plot_name, transforms[plot_name])
         r == UpdateTransformsAndTracker(added, max_range_x, transforms, tracker_time)
     IN /\ store' = r.store
        /\ eval_log' = r.log
        /\ slider_min' = r.slider_min
        /\ slider_max' = r.slider_max
        /\ tracker_time' = r.tracker
        /\ tw_dst' = r.tw.points
        /\ tw_max_range' = r.tw.max_range
        /\ tw_time' = r.tw_time
  /\ cyclic_diag' = FALSE
  /\ UNCHANGED <<undo_vars, active_streamer, streaming_paused, replot_timer, spin_value,
                 max_range_x, curve_list, streamer_data, streamer_max_range, stream_clock,
                 notify_pending, mutex_owner, pc, added_curves, tw_window, transforms,
                 next_order, load_order, cyclic_rest, loaded, deleted>>
  /\ UNCHANGED <<xy_x, xy_y, xy_window, xy_tracker, xy_cache, xy_error, reactive_lua, playing,
                 xy_first, w_fresh>>
  /\ UNCHANGED detail_vars

\* MainWindow::onDeleteMultipleCurves(curve_names), also reached from
\* on_deleteSerieFromGroup: the names and every transform that depends on
\* them leave the curve list, the store and the transforms. "order" is the
\* order in which the loop visits the unordered map of the transforms.
OnDeleteMultipleCurves(curve_names, order) ==
  /\ pc = "idle"
  /\ curve_names # {}
  /\ LET to_be_deleted == DerivedClosure(transforms, order, curve_names, 0)
     IN /\ store' = Erase(store, to_be_deleted)
        /\ transforms' = Erase(transforms, to_be_deleted)
        /\ curve_list' = curve_list \ to_be_deleted
        /\ strings' = strings \ to_be_deleted
        /\ user_defined' = user_defined \ to_be_deleted
        /\ plotted' = plotted \ to_be_deleted
        /\ reactive_functions' = reactive_functions \ to_be_deleted
  /\ deleted' = curve_names
  /\ UNCHANGED <<undo_vars, active_streamer, streaming_paused, replot_timer, spin_value,
                 max_range_x, streamer_data, streamer_max_range, stream_clock, notify_pending,
                 mutex_owner, pc, added_curves, tracker_time, tw_window, tw_dst, tw_max_range,
                 next_order, eval_log, cyclic_diag, load_order, cyclic_rest, loaded, slider_min, slider_max>>
  /\ UNCHANGED <<window_vars, settle_vars, play_vars, failing, visible_range>>

InitTransforms == InitHistory(1) /\ InitStreaming(<<1, 0>>, SpinMaximum) /\ InitGraph /\ InitXY

NextGraph ==
  \/ \E points \in FilePoints : LoadDataFromFile(points)
  \/ \E alias \in EditorAliases, sources \in EditorSources : OnCustomPlotCreated(alias, sources)
  \/ \E plot_name \in Aliases : OnRefreshCustomPlot(plot_name)
  \/ \E curve_names \in SUBSET curve_list, order \in IterationOrders(transforms) :
        OnDeleteMultipleCurves(curve_names, order)
  \/ \E doc \in GraphLayouts : LoadLayoutFromFile(doc)
  \/ DeleteAllData

SpecGraph == InitTransforms /\ [][NextGraph]_vars

----
\* Dependencies between transforms.

\* <<m, n>>: transform n names the destination of transform m among its sources.
Edges(tr) ==
  {e \in (DOMAIN tr) \X (DOMAIN tr) :
     \E k \in 1..Len(tr[e[2]].sources) : tr[e[2]].sources[k] = e[1]}

RECURSIVE TransitiveClosure(_)
TransitiveClosure(R) ==
  LET nodes == {e[1] : e \in R} \cup {e[2] : e \in R}
      next == R \cup {e \in nodes \X nodes :
                        \E a \in R, b \in R : a[1] = e[1] /\ a[2] = b[1] /\ b[2] = e[2]}
  IN IF next = R THEN R ELSE TransitiveClosure(next)

Acyclic(tr) == \A n \in DOMAIN tr : <<n, n>> \notin TransitiveClosure(Edges(tr))

Position(seq, n) == CHOOSE i \in 1..Len(seq) : seq[i] = n

Names(seq) == {seq[i] : i \in 1..Len(seq)}

\* Every transform stands in seq after each transform that produces one of
\* its sources.
ProducersFirst(seq, tr) ==
  \A e \in Edges(tr) :
    e[1] # e[2] => /\ e[1] \in Names(seq)
                   /\ e[2] \in Names(seq)
                   /\ Position(seq, e[1]) < Position(seq, e[2])

\* A step of a handler that runs the bulk pass of updateDataAndReplot.
BulkPassStep ==
  \/ \E points \in FilePoints : LoadDataFromFile(points)
  \/ \E plot_name \in Aliases : OnRefreshCustomPlot(plot_name)

\* C11: whenever the bulk pass runs over an acyclic set of transforms, it
\* calculates every transform after each transform that produces one of its
\* sources.
C11_ProducersBeforeConsumers ==
  [][(BulkPassStep /\ Acyclic(transforms)) => ProducersFirst(eval_log', transforms)]_vars

\* The equations of a layout as a set of transforms, by alias.
SnippetGraph(snippets) ==
  [a \in {snippets[i].alias : i \in 1..Len(snippets)} |->
     [sources |-> snippets[NameToIndex(snippets, a)].sources]]

\* A step of loadLayoutFromFile on a layout with custom equations (the
\* document it loaded is the one state of the undo history afterwards).
LayoutStep ==
  /\ undo_states' # <<>>
  /\ Last(undo_states') \in GraphLayouts
  /\ LoadLayoutFromFile(Last(undo_states'))

\* C12: loading a layout whose custom equations have no cyclic dependency
\* creates and calculates them in an order in which each equation comes
\* after every equation it names as linked or additional source, so that
\* with the file series present every equation gets its series.
C12_LayoutOrder ==
  [][(LayoutStep /\ Acyclic(SnippetGraph(loaded'))) =>
       /\ ProducersFirst(load_order', SnippetGraph(loaded'))
       /\ ~cyclic_diag'
       /\ ("x" \in DOMAIN store =>
             \A i \in 1..Len(loaded') : /\ loaded'[i].alias \in DOMAIN store'
                                         /\ loaded'[i].alias \in DOMAIN transforms')]_vars

\* A layout that lists a chain in reverse, the first equation naming its
\* source twice, was loaded and all three equations exist.
C12_Witness ==
  /\ Len(loaded) = 3
  /\ loaded[1].sources = <<"B", "B">>
  /\ loaded[2].sources = <<"C">>
  /\ loaded[3].sources = <<"x">>
  /\ load_order = <<"C", "B", "A">>
  /\ {"A", "B", "C"} \subseteq DOMAIN transforms
  /\ transforms["A"].order > transforms["B"].order
  /\ transforms["B"].order > transforms["C"].order
  /\ store["A"] = store["x"]

\* Some transform depends on itself through a chain that passes through at
\* least one other transform.
HasCycle(tr) ==
  LET proper == {e \in Edges(tr) : e[1] # e[2]}
  IN \E n \in DOMAIN tr : <<n, n>> \in TransitiveClosure(proper)

\* seq holds every name of S exactly once and nothing else.
ExactlyOnce(seq, S) ==
  /\ Len(seq) = Cardinality(S)
  /\ Names(seq) = S

\* What the topological sort of loadLayoutFromFile leaves: the diagnostic
\* exactly for a cycle, and every equation once in the order.
LayoutOrdering ==
  /\ cyclic_diag' = HasCycle(SnippetGraph(loaded'))
  /\ ExactlyOnce(load_order', DOMAIN SnippetGraph(loaded'))

\* The same for the order in which the bulk pass calculates the transforms.
BulkPassOrdering ==
  /\ cyclic_diag' = HasCycle(transforms)
  /\ ExactlyOnce(eval_log', DOMAIN transforms)

\* C13: whatever the set of transforms, mutually dependent ones included, the
\* ordering ends with the cyclic-dependency diagnostic raised exactly when
\* there is a dependency cycle and with every transform exactly once in the
\* evaluation order, in the layout load and in the bulk pass alike.
C13_CycleDiagnostic ==
  [][(LayoutStep => LayoutOrdering) /\ (BulkPassStep => BulkPassOrdering)]_vars

\* The names of N together with the transforms that have a member of N
\* among their sources, directly or through a chain of other transforms:
\* the least set that holds N and every transform with a source in the set.
RECURSIVE WithDependents(_, _)
WithDependents(tr, N) ==
  LET more == N \cup {t \in DOMAIN tr : \E k \in 1..Len(tr[t].sources) : tr[t].sources[k] \in N}
  IN IF more = N THEN N ELSE WithDependents(tr, more)

\* C14: a call of onDeleteMultipleCurves(N) removes every name of N and every
\* transform that depends on a member of N, directly or through a chain,
\* from the store and from the transforms, and no transform that remains
\* has a removed series among its sources.
C14_DeletionCascade ==
  [][(/\ curve_list' # curve_list
      /\ \E order \in IterationOrders(transforms) : OnDeleteMultipleCurves(deleted', order)) =>
       LET removed == WithDependents(transforms, deleted')
       IN /\ removed \cap DOMAIN store' = {}
          /\ removed \cap DOMAIN transforms' = {}
          /\ \A t \in DOMAIN transforms' :
               \A k \in 1..Len(transforms'[t].sources) :
                 transforms'[t].sources[k] \notin removed]_vars

\* The editor made A from x and B from A, and deleting A took B with it
\* while x stayed.
C14_Witness ==
  /\ loaded = <<>>
  /\ deleted = {"A"}
  /\ next_order = 2
  /\ transforms = <<>>
  /\ DOMAIN store = {"x"}
  /\ curve_list = {"x"}

----
\* Windowing: the Time Window transform and the XY series on bounded series.

\* No series is longer than MaxLen points.
MaxLen == 3

\* The times of the points and of the tracker.
WindowTimes == {0, 1, 2, 3}

\* The time axes: non-decreasing times, ties allowed.
SortedTimes ==
  UNION {{p \in [1..n -> WindowTimes] : \A i \in 1..(n - 1) : p[i] <= p[i + 1]} : n \in 0..MaxLen}

\* The X series over a time axis (point k has the value k) and the Y series
\* (point k has the value -k).
XAxis(times) == [k \in 1..Len(times) |-> <<times[k], k>>]

YAxis(times) == [k \in 1..Len(times) |-> <<times[k], 0 - k>>]

\* The time axes a Y series may have beside an X series: the same axis
\* with one point less or one point more, or as long and different from it at
\* one index at most.
YTimes(xt) ==
  {yt \in SortedTimes :
     LET differ == {i \in 1..Min(Len(xt), Len(yt)) : xt[i] # yt[i]}
     IN \/ Len(yt) = Len(xt) /\ Cardinality(differ) <= 1
        \/ Len(yt) = Len(xt) - 1 /\ differ = {}
        \/ Len(yt) = Len(xt) + 1 /\ differ = {}}

\* The (prev, next) parameters of the two windows.
Windows == {<<0, 0>>, <<1, 1>>}

\* A series over the time axis of X is plotted with a Time Window transform
\* and as the X axis of an XY curve; both windows have the same parameters.
InitWindowOn(xt, yt, window) ==
  /\ InitHistory(1)
  /\ InitGraph
  /\ store = [n \in {"s"} |-> xt]
  /\ curve_list = {"s"}
  /\ xy_x = XAxis(xt)
  /\ xy_y = YAxis(yt)
  /\ tw_window = window
  /\ xy_window = [windowed |-> FALSE, prev |-> window[1], next |-> window[2]]
  /\ xy_tracker = 0
  /\ xy_cache = <<>>
  /\ xy_error = FALSE
  /\ xy_first = FALSE
  /\ active_streamer = FALSE
  /\ streaming_paused = FALSE
  /\ replot_timer = TimerOff
  /\ spin_value = SpinMaximum
  /\ max_range_x = DblMax
  /\ streamer_data = <<>>
  /\ streamer_max_range = DblMax
  /\ stream_clock = 0
  /\ notify_pending = 0
  /\ mutex_owner = "none"
  /\ pc = "idle"
  /\ added_curves = {}
  /\ tracker_time = 0
  /\ tw_dst = <<>>
  /\ tw_max_range = DblMax

InitWindow ==
  \E xt \in SortedTimes, window \in Windows :
    \E yt \in YTimes(xt) : InitWindowOn(xt, yt, window)

other_window_vars == <<undo_vars, graph_vars, active_streamer, streaming_paused, replot_timer,
                       spin_value, max_range_x, curve_list, streamer_data, streamer_max_range,
                       stream_clock, notify_pending, mutex_owner, pc, added_curves, xy_first,
                       detail_vars>>

\* The loop of updateReactivePlots over the plotted curves, the curve with
\* the Time Window transform first: setTimeTracker and calculate, then for
\* the XY curve, when it is windowed, setTrackerTime and updateCache.
WindowUpdate(t) ==
  /\ tracker_time' = t
  /\ tw_time' = t
  /\ LET tw == TimeWindowCalculate(store["s"], max_range_x, t, tw_window)
     IN tw_dst' = tw.points /\ tw_max_range' = tw.max_range
  /\ IF xy_window.windowed
     THEN LET r == UpdateCache(xy_x, xy_y, xy_window, t)
          IN xy_tracker' = t /\ xy_cache' = r.cache /\ xy_error' = r.error
     ELSE UNCHANGED <<xy_tracker, xy_cache, xy_error>>
  /\ w_fresh' = TRUE
  /\ UNCHANGED <<other_window_vars, store, tw_window, xy_x, xy_y, xy_window, reactive_lua, playing>>

\* PointSeriesXY::updateCache called for the curve as it is.
XYUpdateCache ==
  /\ LET r == UpdateCache(xy_x, xy_y, xy_window, xy_tracker)
     IN xy_cache' = r.cache /\ xy_error' = r.error
  /\ UNCHANGED <<other_window_vars, store, tracker_time, tw_window, tw_dst, tw_max_range,
                 xy_x, xy_y, xy_window, xy_tracker, tw_time, reactive_lua, playing, w_fresh>>

\* PointSeriesXY::setTimeWindow with the parameters of the curve.
XYSetTimeWindow ==
  /\ ~xy_window.windowed
  /\ xy_window' = [xy_window EXCEPT !.windowed = TRUE]
  /\ w_fresh' = FALSE
  /\ UNCHANGED <<other_window_vars, store, tracker_time, tw_window, tw_dst, tw_max_range,
                 xy_x, xy_y, xy_tracker, xy_cache, xy_error, tw_time, reactive_lua, playing>>

\* PointSeriesXY::clearTimeWindow
XYClearTimeWindow ==
  /\ xy_window.windowed
  /\ xy_window' = [xy_window EXCEPT !.windowed = FALSE]
  /\ w_fresh' = FALSE
  /\ UNCHANGED <<other_window_vars, store, tracker_time, tw_window, tw_dst, tw_max_range,
                 xy_x, xy_y, xy_tracker, xy_cache, xy_error, tw_time, reactive_lua, playing>>

\* Eviction drops the leading point of the series and of both axes, and the
\* handler that evicted goes through the loop of updateReactivePlots with the
\* tracker time as it is.
EvictLeading ==
  /\ Len(xy_x) > 0
  /\ LET src == Tail(store["s"])
         x == Tail(xy_x)
         y == IF Len(xy_y) > 0 THEN Tail(xy_y) ELSE xy_y
         tw == TimeWindowCalculate(src, max_range_x, tracker_time, tw_window)
         r == UpdateCache(x, y, xy_window, tracker_time)
     IN /\ store' = [store EXCEPT !["s"] = src]
        /\ xy_x' = x
        /\ xy_y' = y
        /\ tw_time' = tracker_time
        /\ tw_dst' = tw.points
        /\ tw_max_range' = tw.max_range
        /\ IF xy_window.windowed
           THEN xy_tracker' = tracker_time /\ xy_cache' = r.cache /\ xy_error' = r.error
           ELSE UNCHANGED <<xy_tracker, xy_cache, xy_error>>
  /\ UNCHANGED <<other_window_vars, tracker_time, tw_window, xy_window, reactive_lua, playing,
                 w_fresh>>

NextWindow ==
  \/ \E t \in WindowTimes : WindowUpdate(t)
  \/ XYUpdateCache
  \/ XYSetTimeWindow
  \/ XYClearTimeWindow
  \/ EvictLeading

SpecWindow == InitWindow /\ [][NextWindow]_vars

----
\* The windowing claims.

\* The points of a time axis that lie in [lower, upper], in their order.
InWindow(p, lower, upper) == SelectSeq(p, LAMBDA x : lower <= x /\ x <= upper)

\* A step in which the Time Window transform got a tracker time and calculated.
WindowUpdateStep == WindowUpdate(tracker_time')

\* C15: after TimeWindowTransform::calculate with tracker time t and the
\* parameters (prev, next) the destination holds exactly the source points
\* with a time in [t - prev, t + next], in source order, whatever it held
\* before.
C15_TimeWindowExact ==
  [][WindowUpdateStep =>
       tw_dst' = InWindow(store["s"], tw_time' - tw_window[1], tw_time' + tw_window[2])]_vars

\* The source <<0, 0, 1>> with the window [1, 1]: the seek steps back from
\* index 2 to 1 and the point on the lower bound is kept.
C15_Witness ==
  /\ store["s"] = <<0, 0, 1>>
  /\ tw_window = <<0, 0>>
  /\ tw_time = 1
  /\ tw_dst = <<1>>
  /\ w_fresh

\* The leading point of the series lies before both windows.
LeadingOutside ==
  /\ Len(xy_x) > 0
  /\ xy_x[1][1] < tracker_time - tw_window[1]
  /\ xy_window.windowed => xy_x[1][1] < xy_tracker - xy_window.prev

XYUpdateStep ==
  \/ XYUpdateCache
  \/ WindowUpdateStep /\ xy_window.windowed
  \/ EvictLeading /\ xy_window.windowed

\* The X and the Y series differ in time at an index both have.
Misaligned(x, y) == \E i \in 1..Min(Len(x), Len(y)) : Abs(x[i][1] - y[i][1]) > Eps

\* C17: updateCache fails with the axis-misalignment error whenever the X and
\* the Y series differ in time at some index below the smaller size, with
\* a window and without one.
C17_MisalignmentDetected ==
  [][XYUpdateStep => (Misaligned(xy_x', xy_y') => xy_error')]_vars

\* The pairs (X value, Y value) of the indices below the smaller size whose
\* time lies in [lower, upper].
RECURSIVE PairsInWindow(_, _, _, _, _)
PairsInWindow(x, y, i, lower, upper) ==
  IF i > Min(Len(x), Len(y)) THEN <<>>
  ELSE (IF lower <= x[i][1] /\ x[i][1] <= upper THEN << <<x[i][2], y[i][2]>> >> ELSE <<>>)
       \o PairsInWindow(x, y, i + 1, lower, upper)

\* C18: after a successful updateCache the cached curve is the sequence of
\* the pairs of all indices with a time in [t - prev, t + next] when a window
\* is set, and of all indices below the smaller size when none is.
C18_CacheExact ==
  [][(XYUpdateStep /\ ~xy_error') =>
       xy_cache' = IF xy_window.windowed
                   THEN PairsInWindow(xy_x', xy_y', 1, xy_tracker' - xy_window.prev,
                                      xy_tracker' + xy_window.next)
                   ELSE PairsInWindow(xy_x', xy_y', 1, 0 - DblMax, DblMax)]_vars

\* X at the times 0, 1, 2 and Y alike, tracker time 1, window (1, 1): the
\* three pairs.
C18_Witness ==
  /\ Times(xy_x) = <<0, 1, 2>>
  /\ Times(xy_y) = <<0, 1, 2>>
  /\ xy_window = [windowed |-> TRUE, prev |-> 1, next |-> 1]
  /\ xy_tracker = 1
  /\ ~xy_error
  /\ xy_cache = <<<<1, -1>>, <<2, -2>>, <<3, -3>>>>

----
\* The tracker time and the reactive plots.

\* Positions on the canvas of a plot widget, as absolute times: the canvas
\* reaches beyond the data on both sides.
CursorTimes == {0, 1, 2, 3, 4}

\* _publish_timer->setInterval(20)
PublishIntervalMs == 20

\* Milliseconds in one unit of the time axis (the factor 0.001 of
\* onPlaybackLoop takes milliseconds to the unit of the data).
MsPerTime == 10

\* Wall time between two ticks of the playback timer (ms): a tick that
\* follows a late one comes before the interval has passed.
ElapsedMs == {10, 20, 30}

\* Values of the playbackRate spin box.
PlaybackRates == {1, 2}

\* The series a file gave to the plots beside the windowed ones.
WideSeries == {<<0, 3>>, <<1, 2>>}

\* The time axes the Y series of the XY curve may have beside the axis
\* <<1, 2>> of its X series: each series is stamped on its own, so the last
\* point of Y may carry another time.
TrackerAxes == {<<1, 2>>, <<1, 3>>}

\* A file was loaded and its series are plotted: "s" with a Time Window
\* transform and as the X axis of an XY curve, "y" as the Y axis of that
\* curve, "x" as a plain curve. The slider has the limits updateTimeSlider
\* gave it and stands at its minimum.
InitTracker ==
  /\ InitHistory(1)
  /\ plotted = {"s", "x", "y"}
  /\ transforms = <<>>
  /\ next_order = 0
  /\ eval_log = <<>>
  /\ cyclic_diag = FALSE
  /\ load_order = <<>>
  /\ cyclic_rest = <<>>
  /\ loaded = <<>>
  /\ deleted = {}
  /\ \E yt \in TrackerAxes, wide \in WideSeries, window \in Windows, windowed \in BOOLEAN :
       /\ store = [n \in {"s", "x", "y"} |->
                     IF n = "s" THEN <<1, 2>> ELSE IF n = "x" THEN wide ELSE yt]
       /\ xy_x = XAxis(<<1, 2>>)
       /\ xy_y = YAxis(yt)
       /\ tw_window = window
       /\ xy_window = [windowed |-> windowed, prev |-> window[1], next |-> window[2]]
       /\ slider_min = CalculateVisibleRangeX(store)[1]
       /\ slider_max = CalculateVisibleRangeX(store)[2]
       /\ tracker_time = slider_min
       /\ tw_time = slider_min
       /\ xy_tracker = IF windowed THEN slider_min ELSE 0
  /\ curve_list = {"s", "x", "y"}
  /\ xy_first \in BOOLEAN
  /\ reactive_lua \in {[exists |-> e, time |-> tracker_time] : e \in BOOLEAN}
  /\ LET r == UpdateCache(xy_x, xy_y, xy_window, xy_tracker)
     IN xy_cache = r.cache /\ xy_error = r.error
  /\ playing = FALSE
  /\ w_fresh = FALSE
  /\ tracker_delay = TimerOff
  /\ plot_tracker = tracker_time
  /\ settles = 0
  /\ last_tick = "none"
  /\ failing = {}
  /\ reactive_functions = {}
  /\ strings = {}
  /\ user_defined = {}
  /\ visible_range = <<0, 1, 1>>
  /\ active_streamer = FALSE
  /\ streaming_paused = FALSE
  /\ replot_timer = TimerOff
  /\ spin_value = SpinMaximum
  /\ max_range_x = DblMax
  /\ streamer_data = <<>>
  /\ streamer_max_range = DblMax
  /\ stream_clock = 0
  /\ notify_pending = 0
  /\ mutex_owner = "none"
  /\ pc = "idle"
  /\ added_curves = {}
  /\ tw_dst = TimeWindowCalculate(store["s"], max_range_x, tw_time, tw_window).points
  /\ tw_max_range = DblMax

\* What the handlers of the tracker time leave alone.
other_tracker_vars == <<undo_vars, graph_vars, active_streamer, streaming_paused, replot_timer,
                        spin_value, max_range_x, store, curve_list, streamer_data,
                        streamer_max_range, stream_clock, notify_pending, mutex_owner, pc,
                        added_curves, tw_window, xy_x, xy_y, xy_window, xy_first, w_fresh>>

\* MainWindow::onTrackerMovedFromWidget: the position of the cursor on the
\* plot becomes the tracker time as it is, the slider follows with its
\* signals blocked, and onTrackerTimeUpdated runs updateReactivePlots. The
\* tracker of the plots is enabled while streaming is not running.
OnTrackerMovedFromWidget(t) ==
  /\ pc = "idle"
  /\ ~IsStreamingActive
  /\ tracker_time' = t
  /\ OnTrackerTimeUpdated(store, t)
  /\ UNCHANGED <<other_tracker_vars, playing>>

\* MainWindow::on_buttonPlay_toggled: the playback timer starts or stops
\* (the play widget is enabled while streaming is not running).
OnButtonPlayToggled ==
  /\ pc = "idle"
  /\ ~IsStreamingActive
  /\ playing' = ~playing
  /\ UNCHANGED <<undo_vars, stream_vars, graph_vars, xy_x, xy_y, xy_window, xy_tracker,
                 xy_cache, xy_error, tw_time, reactive_lua, w_fresh, xy_first>>
  /\ UNCHANGED detail_vars

\* onPlaybackLoop with the play button left down at the end of the range.
OnPlaybackLoop_NoRelease(elapsed, rate, loop) ==
  /\ pc = "idle"
  /\ playing
  /\ LET delta_ms == Max(PublishIntervalMs, elapsed)
         advanced == tracker_time + (delta_ms * rate) \div MsPerTime
         t == IF advanced >= slider_max THEN slider_min ELSE advanced
     IN /\ tracker_time' = t
        /\ playing' = playing
        /\ last_tick' = IF advanced < slider_max THEN "advanced"
                        ELSE IF loop THEN "looped" ELSE "stopped"
        /\ ReactivePlots(store, t)
        /\ plot_tracker' = IF XYThrows(t) THEN plot_tracker ELSE t
  /\ UNCHANGED <<other_tracker_vars, tracker_delay, settles, batch_vars, kind_vars, range_vars>>

\* MainWindow::onPlaybackLoop, the timeout of the playback timer, elapsed ms
\* after the previous tick (or after the play button went down): delta_ms is
\* the elapsed time, but not less than the interval of the timer; the
\* tracker time advances by delta_ms * 0.001 * rate; at the maximum of the
\* slider or beyond it goes to the minimum of the slider, and the play
\* button is released (which stops the timer) unless the loop box is
\* checked; then updateReactivePlots, and every plot gets the tracker
\* position unless updateReactivePlots threw.
OnPlaybackLoop(elapsed, rate, loop) ==
  /\ pc = "idle"
  /\ playing
  /\ LET delta_ms == Max(PublishIntervalMs, elapsed)
         advanced == tracker_time + (delta_ms * rate) \div MsPerTime
         t == IF advanced >= slider_max THEN slider_min ELSE advanced
     IN /\ tracker_time' = t
        /\ playing' = IF advanced >= slider_max /\ ~loop THEN FALSE ELSE playing
        /\ last_tick' = IF advanced < slider_max THEN "advanced"
                        ELSE IF loop THEN "looped" ELSE "stopped"
        /\ ReactivePlots(store, t)
        /\ plot_tracker' = IF XYThrows(t) THEN plot_tracker ELSE t
  /\ UNCHANGED <<other_tracker_vars, tracker_delay, settles, batch_vars, kind_vars, range_vars>>

NextTracker ==
  \/ \E d \in TimeSteps : AdvanceTime(d)
  \/ TrackerDelayTimeout
  \/ \E t \in CursorTimes : OnTrackerMovedFromWidget(t)
  \/ \E t \in CursorTimes : OnTimeSliderValueChanged(t)
  \/ OnButtonPlayToggled
  \/ \E elapsed \in ElapsedMs, rate \in PlaybackRates, loop \in BOOLEAN :
       OnPlaybackLoop(elapsed, rate, loop)
  \/ \E order \in IterationOrders(transforms) : OnDeleteMultipleCurves({"x"}, order)

SpecTracker == InitTracker /\ [][NextTracker]_vars

----
\* The tracker claims.

\* C19: between two handlers the tracker time lies within the first two
\* components of calculateVisibleRangeX, the minimum and the maximum of the
\* visible range, whichever of the cursor move, the slider move, the
\* playback tick and the curve deletion ran last.
C19_TrackerInRange ==
  pc = "idle" =>
    LET range == CalculateVisibleRangeX(store)
    IN range[1] <= tracker_time /\ tracker_time <= range[2]

\* A step of one of the handlers that update the tracker time.
TrackerUpdateStep ==
  \/ OnTrackerMovedFromWidget(tracker_time')
  \/ OnTimeSliderValueChanged(tracker_time')
  \/ \E elapsed \in ElapsedMs, rate \in PlaybackRates, loop \in BOOLEAN :
       OnPlaybackLoop(elapsed, rate, loop)

\* C20: after a cursor move, a slider move or a playback tick the reactive
\* Lua function, the Time Window transform of the plotted curve and the
\* windowed XY curve hold the new tracker time, and the destination of the
\* transform is the window of its source around that time.
C20_ReactiveCurrent ==
  [][TrackerUpdateStep =>
       /\ reactive_lua'.exists => reactive_lua'.time = tracker_time'
       /\ "s" \in DOMAIN store' =>
             /\ tw_time' = tracker_time'
             /\ tw_dst' = InWindow(store'["s"], tracker_time' - tw_window'[1],
                                   tracker_time' + tw_window'[2])
       /\ xy_window'.windowed => xy_tracker' = tracker_time']_vars

\* A step of one of the handlers that run onTrackerTimeUpdated for a move of
\* the cursor: the move on a plot and the move of the slider.
TrackerMoveStep ==
  \/ OnTrackerMovedFromWidget(tracker_time')
  \/ OnTimeSliderValueChanged(tracker_time')

\* The reactive outputs hold the tracker time.
ReactiveIsCurrent ==
  /\ reactive_lua.exists => reactive_lua.time = tracker_time
  /\ "s" \in DOMAIN store => tw_time = tracker_time
  /\ xy_window.windowed => xy_tracker = tracker_time

\* C21: every move of the cursor restarts the 100 ms of the delay, gives the
\* plots the new tracker position and leaves the reactive outputs at the new
\* time; the callback of the delay (display time and left table) runs only
\* when 100 ms have passed since the last move, and once.
C21_Debounce ==
  [][/\ TrackerMoveStep =>
          /\ tracker_delay' = TrackerDelayMs
          /\ settles' = 0
          /\ plot_tracker' = tracker_time'
          /\ ReactiveIsCurrent'
     /\ settles' > settles =>
          /\ tracker_delay = 0
          /\ tracker_delay' = TimerOff
          /\ settles' = 1]_vars

\* The tracker time a tick reaches when it adds advance to the tracker time,
\* and the state of the play button after it.
TickOutcome(advance, loop) ==
  LET advanced == tracker_time + advance
  IN /\ advanced < slider_max => tracker_time' = advanced /\ playing'
     /\ advanced >= slider_max /\ loop => tracker_time' = slider_min /\ playing'
     /\ advanced >= slider_max /\ ~loop => ~playing'

\* C22 as stated: a playback tick adds the elapsed wall time multiplied by
\* the playback rate to the tracker time; at the upper bound of the range
\* the tracker time becomes the lower bound and playback goes on with the
\* loop box checked, and playback stops without it.
C22_PlaybackElapsed ==
  [][\A elapsed \in ElapsedMs, rate \in PlaybackRates, loop \in BOOLEAN :
       OnPlaybackLoop(elapsed, rate, loop) =>
         TickOutcome((elapsed * rate) \div MsPerTime, loop)]_vars

\* C22, amended: a playback tick adds the elapsed wall time, or the interval
\* of the playback timer if that is longer, multiplied by the playback rate;
\* at the maximum of the slider the tracker time becomes the minimum of the
\* slider and playback goes on with the loop box checked, and the play
\* button is released without it.
C22_PlaybackTick ==
  [][\A elapsed \in ElapsedMs, rate \in PlaybackRates, loop \in BOOLEAN :
       OnPlaybackLoop(elapsed, rate, loop) =>
         /\ TickOutcome((Max(PublishIntervalMs, elapsed) * rate) \div MsPerTime, loop)
         /\ tracker_time + (Max(PublishIntervalMs, elapsed) * rate) \div MsPerTime >= slider_max
              => tracker_time' = slider_min]_vars

\* A tick has taken the tracker time from the end of the range to the minimum
\* of the slider with the loop box checked, and playback goes on.
C22_Witness == last_tick = "looped" /\ playing /\ tracker_time = slider_min

----
\* Batches of calculations with failing transforms.

\* The sets of transforms whose calculation raises a runtime error.
FailingSets == {{}, {"A"}, {"B"}}

\* The custom plots the function editor hands over in one call.
PlotBatches ==
  LET plots == {Snippet(alias, sources) : alias \in EditorAliases, sources \in EditorSources}
  IN {<<p>> : p \in plots} \cup {<<p, q>> : p \in plots, q \in plots}

\* Layout files with one or two custom equations.
BatchLayouts ==
  {[layout |-> 0, rel |-> FALSE, snippets |-> <<Snippet("A", a)>>] :
     a \in SnippetSources["A"]}
  \cup {[layout |-> 0, rel |-> FALSE, snippets |-> <<Snippet("A", a), Snippet("B", b)>>] :
          a \in SnippetSources["A"], b \in SnippetSources["B"]}

\* The scripts named in names raise a runtime error from now on (an error of
\* the user's script on the data it meets), the others calculate.
ScriptsFail(names) ==
  /\ pc = "idle"
  /\ failing' = names
  /\ UNCHANGED reactive_functions
  /\ UNCHANGED <<undo_vars, stream_vars, graph_vars, window_vars, settle_vars, play_vars,
                 kind_vars, range_vars>>

NextBatch ==
  \/ \E names \in FailingSets : ScriptsFail(names)
  \/ \E points \in FilePoints : LoadDataFromFile(points)
  \/ \E plots \in PlotBatches : OnCustomPlotsCreated(plots)
  \/ \E plot_name \in Aliases : OnRefreshCustomPlot(plot_name)
  \/ \E doc \in BatchLayouts : LoadLayoutFromFile(doc)
  \/ DeleteAllData

SpecBatch == InitTransforms /\ [][NextBatch]_vars

\* Every custom plot of the batch is registered, and the destination of
\* every plot whose calculation does not fail is in the store.
AllPlotsCreated(plots) ==
  \A i \in 1..Len(plots) :
    /\ plots[i].alias \in DOMAIN transforms'
    /\ plots[i].alias \notin failing => plots[i].alias \in DOMAIN store'

\* Every snippet of the layout whose sources are in the store and whose
\* calculation does not fail is registered and has its destination.
AllSnippetsCreated(doc) ==
  \A i \in 1..Len(Snippets(doc)) :
    LET snippet == Snippets(doc)[i]
    IN (/\ snippet.alias \notin failing
        /\ \A k \in 1..Len(snippet.sources) : snippet.sources[k] \in DOMAIN store)
         => snippet.alias \in DOMAIN transforms' /\ snippet.alias \in DOMAIN store'

\* C23: a calculation that raises a runtime error does not keep the other
\* transforms of the batch from being evaluated: the bulk pass of
\* updateDataAndReplot reaches every transform, onCustomPlotCreated creates
\* every plot of its batch, and loadLayoutFromFile every snippet that can be
\* calculated.
C23_BatchIsolation ==
  [][/\ BulkPassStep => eval_log' = SortByOrder(transforms')
     /\ \A plots \in PlotBatches : OnCustomPlotsCreated(plots) => AllPlotsCreated(plots)
     /\ \A doc \in BatchLayouts : LoadLayoutFromFile(doc) => AllSnippetsCreated(doc)]_vars

\* The destination series n is after the step what it was before it, and
\* absent or empty when there was none.
DestinationKept(n) ==
  IF n \in DOMAIN store
  THEN n \in DOMAIN store' /\ store'[n] = store[n]
  ELSE n \notin DOMAIN store' \/ store'[n] = <<>>

\* C24: a calculation that fails leaves its destination series as it was
\* (or empty when there was none): in onCustomPlotCreated, also when the
\* plot re-defines an existing one, and in onRefreshCustomPlot with the
\* bulk pass it runs.
C24_KeepsLastGood ==
  [][/\ \A alias \in EditorAliases, sources \in EditorSources :
          (OnCustomPlotCreated(alias, sources) /\ alias \in failing) => DestinationKept(alias)
     /\ \A plot_name \in Aliases :
          OnRefreshCustomPlot(plot_name) =>
            \A n \in failing \cap DOMAIN transforms : DestinationKept(n)]_vars

\* The transform registered under the alias after the step has the sources
\* of the definition.
RegisteredAs(alias, sources) ==
  alias \in DOMAIN transforms' /\ transforms'[alias].sources = sources

\* C25: after a definition of a transform the one registered under its name
\* is the newly defined one, whether the function editor made it
\* (onCustomPlotCreated) or a layout that was loaded (loadLayoutFromFile, for
\* the snippets whose sources are in the store and whose script calculates).
C25_RedefinitionReplaces ==
  [][/\ \A alias \in EditorAliases, sources \in EditorSources :
          OnCustomPlotCreated(alias, sources) => RegisteredAs(alias, sources)
     /\ \A doc \in BatchLayouts :
          LoadLayoutFromFile(doc) =>
            \A i \in 1..Len(Snippets(doc)) :
              (/\ Snippets(doc)[i].alias \notin failing
               /\ \A k \in 1..Len(Snippets(doc)[i].sources) :
                    Snippets(doc)[i].sources[k] \in DOMAIN store)
                => RegisteredAs(Snippets(doc)[i].alias, Snippets(doc)[i].sources)]_vars

----
\* The kinds of series of the store.

\* The names of the string series of a file.
StringNames == {"n"}

\* Layout files whose plots name curves.
CurveLayouts ==
  {[layout |-> 0, rel |-> FALSE, curves |-> curves] : curves \in SUBSET {"x", "n", "m"}}

\* loadDataFromFile of a file that holds string series only.
LoadStringsFromFile(string_names) == LoadFile(<<>>, string_names)

NextKinds ==
  \/ \E points \in FilePoints : LoadDataFromFile(points)
  \/ \E string_names \in SUBSET StringNames : LoadStringsFromFile(string_names)
  \/ \E doc \in CurveLayouts : LoadLayoutFromFile(doc)
  \/ \E name \in curve_list, order \in IterationOrders(transforms) :
        OnDeleteMultipleCurves({name}, order)
  \/ DeleteAllData

SpecKinds == InitTransforms /\ [][NextKinds]_vars

\* C26: no name is in more than one of the numeric, the string and the
\* user-defined series of the store.
C26_OneKindPerName ==
  /\ DOMAIN store \cap strings = {}
  /\ DOMAIN store \cap user_defined = {}
  /\ strings \cap user_defined = {}

----
\* The ordering of the custom equations of a layout.

\* The linked source and the additional sources an equation of a layout may
\* name: the file series, an equation of the layout (itself included), or both.
SortSources == {<<"x">>, <<"A">>, <<"B">>, <<"C">>, <<"x", "A">>, <<"x", "C">>}

\* Layout files with the three equations A, B, C in this order.
SortLayouts ==
  {[layout |-> 0, rel |-> FALSE,
    snippets |-> <<Snippet("A", a), Snippet("B", b), Snippet("C", c)>>] :
     a \in SortSources, b \in SortSources, c \in SortSources}

NextSort ==
  \/ \E points \in FilePoints : LoadDataFromFile(points)
  \/ \E doc \in SortLayouts : LoadLayoutFromFile(doc)
  \/ DeleteAllData

SpecSort == InitTransforms /\ [][NextSort]_vars

\* The dependencies between different transforms.
ProperEdges(tr) == {e \in Edges(tr) : e[1] # e[2]}

\* n depends on itself through at least one other transform.
OnCycle(tr, n) == <<n, n>> \in TransitiveClosure(ProperEdges(tr))

\* n is on a cycle or consumes, directly or through other transforms, the
\* output of a transform on a cycle.
BehindCycle(tr, n) ==
  \E m \in DOMAIN tr : /\ OnCycle(tr, m)
                       /\ <<m, n>> \in TransitiveClosure(ProperEdges(tr))

\* The aliases of the equations the last layout load appended with nonzero
\* in-degree.
RestAliases == {loaded[cyclic_rest[k]].alias : k \in 1..Len(cyclic_rest)}

\* C27 as stated: the equations left with nonzero in-degree are exactly the
\* members of dependency cycles, and an equation that only consumes the
\* output of a cyclic equation is not among them.
C27_RestIsCycle ==
  loaded # <<>> =>
    RestAliases = {a \in DOMAIN SnippetGraph(loaded) : OnCycle(SnippetGraph(loaded), a)}

\* C27: when the topological ordering ends with equations whose in-degree is
\* still nonzero, a dependency cycle exists among them, and the equations
\* left are the members of the cycles together with every equation that
\* consumes, directly or through other equations, the output of a member;
\* without a cycle no equation is left.
C27_RestBehindCycle ==
  loaded # <<>> =>
    LET tr == SnippetGraph(loaded)
    IN /\ RestAliases = {a \in DOMAIN tr : BehindCycle(tr, a)}
       /\ Len(cyclic_rest) = Cardinality(RestAliases)
       /\ cyclic_rest # <<>> => \E a \in RestAliases : OnCycle(tr, a)

\* A and B name each other and C only consumes A: all three were left with
\* nonzero in-degree although C is on no cycle.
C27_Witness ==
  /\ Len(loaded) = 3
  /\ loaded[1].sources = <<"B">>
  /\ loaded[2].sources = <<"A">>
  /\ loaded[3].sources = <<"x", "A">>
  /\ cyclic_rest = <<1, 2, 3>>
  /\ ~OnCycle(SnippetGraph(loaded), "C")
  /\ cyclic_diag

\* C28: when a dependency cycle exists, the order of the layout load holds
\* first the equations the topological sort took, each after the equations
\* it names, and then the equations left with nonzero in-degree, in the
\* relative order they have in the layout.
C28_RestInInputOrder ==
  (loaded # <<>> /\ cyclic_rest # <<>>) =>
    LET n == Len(load_order)
        r == Len(cyclic_rest)
        tr == SnippetGraph(loaded)
        sorted == SubSeq(load_order, 1, n - r)
    IN /\ n = Len(loaded)
       /\ \A k \in 1..r : load_order[n - r + k] = loaded[cyclic_rest[k]].alias
       /\ \A k \in 1..(r - 1) : cyclic_rest[k] < cyclic_rest[k + 1]
       /\ Names(sorted) = DOMAIN tr \ RestAliases
       /\ \A e \in ProperEdges(tr) :
            e[2] \in Names(sorted) => /\ e[1] \in Names(sorted)
                                      /\ Position(sorted, e[1]) < Position(sorted, e[2])

\* A and C name each other and B reads the file series: B was sorted, then
\* A and C were appended in the order of the layout.
C28_Witness ==
  /\ Len(loaded) = 3
  /\ loaded[1].sources = <<"C">>
  /\ loaded[2].sources = <<"x">>
  /\ loaded[3].sources = <<"x", "A">>
  /\ cyclic_rest = <<1, 3>>
  /\ load_order = <<"B", "A", "C">>

\* The equations with every source that names the equation's own alias
\* taken out.
StripSelf(snippets) ==
  [i \in 1..Len(snippets) |->
     Snippet(snippets[i].alias,
             SelectSeq(snippets[i].sources, LAMBDA s : s # snippets[i].alias))]

\* C29: an equation that names its own alias as linked or additional source
\* gets no dependency edge from that reference: the layout load orders the
\* equations as it orders them with the self-references taken out, and the
\* equations are left with nonzero in-degree only when a dependency cycle
\* through at least two equations exists.
C29_SelfReferenceIgnored ==
  loaded # <<>> =>
    LET plain == SortSnippets(StripSelf(loaded))
    IN /\ load_order = [k \in 1..Len(plain.sorted) |-> loaded[plain.sorted[k]].alias]
       /\ cyclic_rest = plain.rest
       /\ cyclic_rest # <<>> => HasCycle(SnippetGraph(loaded))

\* B names itself as linked source, C itself as additional source, and A
\* names C: no warning, B and C were taken first and A after C.
C29_Witness ==
  /\ Len(loaded) = 3
  /\ loaded[1].sources = <<"x", "C">>
  /\ loaded[2].sources = <<"B">>
  /\ loaded[3].sources = <<"x", "C">>
  /\ load_order = <<"B", "C", "A">>
  /\ cyclic_rest = <<>>
  /\ ~cyclic_diag

----
\* The frame of a deletion.

\* The number of runs of the while loop of onDeleteMultipleCurves.
RECURSIVE DerivedPasses(_, _, _, _)
DerivedPasses(tr, order, to_be_deleted, prev_size) ==
  IF prev_size < Cardinality(to_be_deleted)
  THEN 1 + DerivedPasses(tr, order, DeletePass(tr, order, to_be_deleted),
                         Cardinality(to_be_deleted))
  ELSE 0

\* C30: a call of onDeleteMultipleCurves(N) ends, whatever the transforms
\* depend on and in whatever order the loop visits them, after at most one
\* pass more than the names it adds to N, and it removes nothing beyond N
\* and the transforms that depend on a member of N: every other series is
\* in the store afterwards with the points it had, every other transform is
\* still registered with the same sources and order, and every other curve
\* is still in the curve list.
C30_DeletionFrame ==
  [][(/\ curve_list' # curve_list
      /\ \E order \in IterationOrders(transforms) : OnDeleteMultipleCurves(deleted', order)) =>
       LET closure == WithDependents(transforms, deleted')
       IN /\ \A order \in IterationOrders(transforms) :
               /\ DerivedClosure(transforms, order, deleted', 0) = closure
               /\ DerivedPasses(transforms, order, deleted', 0)
                    <= Cardinality(closure \ deleted') + 1
          /\ \A n \in DOMAIN store \ closure : n \in DOMAIN store' /\ store'[n] = store[n]
          /\ \A t \in DOMAIN transforms \ closure :
               t \in DOMAIN transforms' /\ transforms'[t] = transforms[t]
          /\ curve_list' = curve_list \ closure
          /\ strings' = strings \ closure]_vars

\* The editor made A from x and B from A and then redefined A from B; the
\* deletion of x ran its passes over the two transforms that name each
\* other and left both with their series.
C30_Witness ==
  /\ deleted = {"x"}
  /\ next_order = 3
  /\ DOMAIN transforms = {"A", "B"}
  /\ transforms["A"].sources = <<"B">>
  /\ transforms["B"].sources = <<"A">>
  /\ DOMAIN store = {"A", "B"}
  /\ store["A"] = <<1, 2>>
  /\ curve_list = {"A", "B"}

----
\* The visible time range and the curves of the plots.

\* The points a file may hold for a numeric series: none, one, two.
RangeSeries == {<<>>, <<2>>, <<1, 3>>}

\* Data files with the series "x", "u" or both.
RangeFiles ==
  UNION {[names -> RangeSeries] : names \in {{"x"}, {"u"}, {"x", "u"}}}

\* The curves the plots may hold: series of the files and "z", a curve
\* whose series is not in the numeric mapping.
RangeCurves == SUBSET {"x", "u", "z"}

\* The handler of PlotWidget::curveListChanged that onPlotAdded connects:
\* the plots hold the curves named "curves" now; updateTimeOffset, then
\* updateTimeSlider gives the slider the limits of calculateVisibleRangeX
\* and clamps the tracker time to them.
OnCurveListChanged(curves) ==
  /\ pc = "idle"
  /\ plotted' = curves
  /\ LET range == VisibleRangeX(curves, store)
     IN /\ visible_range' = range
        /\ slider_min' = range[1]
        /\ slider_max' = range[2]
        /\ tracker_time' = Min(Max(tracker_time, range[1]), range[2])
  /\ UNCHANGED <<undo_vars, active_streamer, streaming_paused, replot_timer, spin_value,
                 max_range_x, store, curve_list, streamer_data, streamer_max_range,
                 stream_clock, notify_pending, mutex_owner, pc, added_curves, tw_window,
                 tw_dst, tw_max_range, transforms, next_order, eval_log, cyclic_diag,
                 load_order, cyclic_rest, loaded, deleted>>
  /\ UNCHANGED <<window_vars, settle_vars, play_vars, batch_vars, kind_vars>>

\* loadDataFromFile of a file with the numeric series of "file".
LoadRangeFile(file) == LoadFile(file, {})

NextRange ==
  \/ \E file \in RangeFiles : LoadRangeFile(file)
  \/ \E curves \in RangeCurves : OnCurveListChanged(curves)
  \/ \E name \in curve_list, order \in IterationOrders(transforms) :
        OnDeleteMultipleCurves({name}, order)
  \/ DeleteAllData

SpecRange == InitTransforms /\ [][NextRange]_vars

\* The plotted series that are in the numeric mapping with at least one point.
PlottedWithData(curves, map) == {n \in curves \cap DOMAIN map : Len(map[n]) >= 1}

\* C31: at a change of the curves of the plots calculateVisibleRangeX gives
\* the least first time and the greatest last time of the plotted series
\* when a plotted series holds data, and <<0, 1>> when no curve is plotted,
\* whatever the series outside the plots hold.
C31_PlottedRange ==
  [][OnCurveListChanged(plotted') =>
       LET held == PlottedWithData(plotted', store)
       IN /\ held # {} =>
               /\ visible_range'[1] = Least({store[n][1] : n \in held})
               /\ visible_range'[2] = Greatest({Last(store[n]) : n \in held})
          /\ plotted' = {} => visible_range'[1] = 0 /\ visible_range'[2] = 1]_vars

\* C40: the range calculateVisibleRangeX returns is well formed whatever the
\* plots and the store hold (no series, empty series, series of one point):
\* the minimum is not greater than the maximum and the step count is at
\* least 1, and so are the limits the time slider gets.
C40_WellFormedRange ==
  /\ visible_range[1] <= visible_range[2]
  /\ visible_range[3] >= 1
  /\ slider_min <= slider_max

\* The plots hold a series of one point, an empty series and a curve without
\* series, and the range is the fallback <<0, 1, 1>>.
C40_Witness ==
  /\ plotted = {"x", "u", "z"}
  /\ DOMAIN store = {"x", "u"}
  /\ store["x"] = <<2>>
  /\ store["u"] = <<>>
  /\ visible_range = <<0, 1, 1>>
  /\ slider_min = 0
  /\ slider_max = 1

----
\* The bulk pass over static and reactive transforms.

\* The name of the reactive Lua function.
ReactiveNames == {"R"}

\* The function editor adds a reactive Lua function: an entry of
\* _transform_functions that is a ReactiveLuaFunction, with the order() of
\* the next transform object. updateReactivePlots gives it the tracker time.
OnReactiveFunctionCreated(name) ==
  /\ pc = "idle"
  /\ name \notin DOMAIN transforms
  /\ "x" \in DOMAIN store
  /\ next_order + 1 <= MaxOrder
  /\ transforms' = Insert(transforms, name, NewTransform(<<"x">>, next_order))
  /\ next_order' = next_order + 1
  /\ reactive_functions' = reactive_functions \cup {name}
  /\ reactive_lua' = [exists |-> TRUE, time |-> tracker_time]
  /\ UNCHANGED <<undo_vars, stream_vars, eval_log, cyclic_diag, load_order, cyclic_rest,
                 loaded, deleted, slider_min, slider_max>>
  /\ UNCHANGED <<xy_x, xy_y, xy_window, xy_tracker, xy_cache, xy_error, tw_time, playing,
                 xy_first, w_fresh>>
  /\ UNCHANGED <<settle_vars, play_vars, failing, kind_vars, range_vars>>

NextBulk ==
  \/ \E names \in FailingSets : ScriptsFail(names)
  \/ \E points \in FilePoints : LoadDataFromFile(points)
  \/ \E alias \in EditorAliases, sources \in EditorSources : OnCustomPlotCreated(alias, sources)
  \/ \E name \in ReactiveNames : OnReactiveFunctionCreated(name)
  \/ \E plot_name \in Aliases : OnRefreshCustomPlot(plot_name)
  \/ DeleteAllData

SpecBulk == InitTransforms /\ [][NextBulk]_vars

\* seq holds its transforms in ascending order().
AscendingOrder(seq, tr) ==
  \A i, j \in 1..Len(seq) : i < j => tr[seq[i]].order < tr[seq[j]].order

\* C32: in one pass of updateDataAndReplot the loop over the transforms
\* calculates every transform that is not a reactive Lua function exactly
\* once, in ascending order(), and calculates no reactive Lua function.
C32_BulkPass ==
  [][BulkPassStep =>
       /\ ExactlyOnce(eval_log', DOMAIN transforms' \ reactive_functions')
       /\ AscendingOrder(eval_log', transforms')]_vars

----
\* The size of the history.

\* C33: in every reachable state the undo stack and the redo stack hold at
\* most 100 snapshots together: Undo and Redo move one snapshot between the
\* stacks, a recorded edit empties the redo stack, and a layout load and
\* deleteAllData leave no more snapshots than there were.
C33_HistoryBound ==
  Len(undo_states) + Len(redo_states) <= MaxUndoStates

\* The stacks hold 100 snapshots together after Undo moved two snapshots of
\* a full undo stack to the redo stack.
C33_Witness ==
  /\ Len(undo_states) = MaxUndoStates - 2
  /\ Len(redo_states) = 2
  /\ hist.op = "undo"

----
\* What coalescing replaces.

\* An edit step has replaced the top of the undo stack instead of pushing
\* above it: the stack keeps its size and the entries below its top.
Coalesced ==
  /\ undo_states # <<>>
  /\ Len(undo_states') = Len(undo_states)
  /\ Front(undo_states') = Front(undo_states)

\* C34: an edit that coalesces replaces the snapshot recorded by the
\* immediately preceding edit (the last handler that changed the history was
\* an edit, or the notification of the construction): it never removes a
\* snapshot that was recorded earlier, such as the one an Undo has exposed as
\* the top of the stack.
C34_CoalesceOnlyPrecedingEdit ==
  [][(EditStep /\ Coalesced) => hist.op \in {"edit", "init"}]_vars

----
\* The history after a layout file has been loaded.

\* C35: loadLayoutFromFile leaves the undo stack with exactly one snapshot,
\* the loaded document, which is the live state; and an Undo or a Redo made
\* after the load, with no edit in between, never makes a snapshot taken
\* before the load the live state: it leaves the live state as it is.
C35_LoadResetsHistory ==
  /\ [][(\E doc \in LayoutFiles : LoadLayoutFromFile(doc)) =>
          undo_states' = <<LiveDoc'>>]_vars
  /\ [][((OnUndoInvoked \/ OnRedoInvoked) /\ hist.op = "load") =>
          LiveDoc' = LiveDoc]_vars

\* The part of C35 about the undo stack alone.
C35_UndoStackIsLoadedDocument ==
  [][(\E doc \in LayoutFiles : LoadLayoutFromFile(doc)) =>
       undo_states' = <<LiveDoc'>>]_vars

----
\* Sampling the XY curve at a time.

\* PointSeriesXY::sampleFromTime(t) up to the read of the cached curve:
\* the 0-based index it passes to _cached_curve.at(), or -1 when it returns
\* no point (the cache is empty, or getIndexFromX of the Y series fails).
SampleIndex(y, cache, t) ==
  IF Len(cache) = 0 THEN -1
  ELSE GetIndexFromX(Times(y), t)

\* C36: whatever the time asked for, the index sampleFromTime reads the
\* cached curve at is below the size of the cached curve, with a time window
\* and without one.
C36_SampleInRange ==
  \A t \in WindowTimes : SampleIndex(xy_y, xy_cache, t) < Len(xy_cache)

----
\* The cached curve after a failed updateCache.

\* Time axes of MaxLen + 1 points, and the time axes of as many points that
\* differ from one of them at two indices at most.
LongTimes == {p \in [1..(MaxLen + 1) -> WindowTimes] : \A i \in 1..MaxLen : p[i] <= p[i + 1]}

LongYTimes(xt) ==
  {yt \in LongTimes : Cardinality({i \in 1..Len(xt) : xt[i] # yt[i]}) <= 2}

\* The XY curve over X and Y series of MaxLen + 1 points, the X series from
\* the time 0 on.
InitCache ==
  \E xt \in LongTimes, window \in Windows :
    \E yt \in LongYTimes(xt) : xt[1] = 0 /\ InitWindowOn(xt, yt, window)

\* The calls that reach PointSeriesXY, the series staying as they are.
NextCache ==
  \/ \E t \in WindowTimes : WindowUpdate(t)
  \/ XYUpdateCache
  \/ XYSetTimeWindow
  \/ XYClearTimeWindow

SpecCache == InitCache /\ [][NextCache]_vars

\* The first index (1-based) at which the X and the Y series differ in time,
\* among the indices both have.
FirstMismatch(x, y) ==
  Least({i \in 1..Min(Len(x), Len(y)) : Abs(x[i][1] - y[i][1]) > Eps})

\* C37: when updateCache fails with the axis-misalignment error the cached
\* curve holds exactly the pairs of the indices before the first mismatching
\* index whose time lies in the window (every such index without a window),
\* whatever it held before the call.
C37_FailureLeavesPrefix ==
  [][(XYUpdateStep /\ xy_error') =>
       LET x == SubSeq(xy_x', 1, FirstMismatch(xy_x', xy_y') - 1)
       IN xy_cache' = IF xy_window.windowed
                       THEN PairsInWindow(x, xy_y', 1, xy_tracker' - xy_window.prev,
                                          xy_tracker' + xy_window.next)
                       ELSE PairsInWindow(x, xy_y', 1, 0 - DblMax, DblMax)]_vars

----
\* Progress of the streaming data path.

\* The streaming handlers alone: the streamer's thread, the queued
\* dataReceived signal, start, pause, resume and stop, the replot timer and
\* updateDataAndReplot.
NextLive ==
  \/ \E d \in StreamTimeSteps : AdvanceTime(d)
  \/ \E step \in StreamSteps : StreamerPush(step)
  \/ OnDataReceived
  \/ \E started, declared \in BOOLEAN : StartStreamingPlugin(started, declared)
  \/ StartImportMoveData
  \/ StartImportCurveList
  \/ StartFinish
  \/ StopStreamingPlugin
  \/ OnStreamingToggled
  \/ ReplotTimerTimeout
  \/ UpdateMoveData
  \/ UpdateRest

\* A handler that has begun (startStreamingPlugin after start(),
\* updateDataAndReplot after the timeout) takes its next step: the one action
\* that leaves the position pc.
HandlerContinues ==
  /\ pc # "idle"
  /\ pc' \in {"start_curvelist", "start_finish", "update_rest", "idle"}

\* What the event loop of the main thread guarantees: time passes and an
\* active timer expires, a queued signal is delivered, an expired timer calls
\* its slot, and a handler that has begun runs to its end. Nothing makes the
\* streamer produce data or the user press a button.
FairLive ==
  /\ WF_vars(\E d \in StreamTimeSteps : AdvanceTime(d))
  /\ WF_vars(OnDataReceived)
  /\ WF_vars(ReplotTimerTimeout)
  /\ WF_pc(HandlerContinues)

SpecLive == InitStream /\ [][NextLive]_vars /\ FairLive

\* The dataMap() of the streamer holds points that were not moved yet.
Buffered == \E n \in DOMAIN streamer_data : Len(streamer_data[n]) > 0

\* C38: while the stream runs, points in the buffer of the streamer, those
\* buffered during a pause included, are eventually moved into the store
\* (or streaming is paused or stopped), with no further notification needed;
\* and a notification received while the stream runs, which leaves the replot
\* timer active, is eventually followed by the MoveData of
\* updateDataAndReplot (or the streamer is stopped).
C38_EventualDrain ==
  /\ (IsStreamingActive /\ Buffered) ~> (~Buffered \/ ~IsStreamingActive)
  /\ (IsStreamingActive /\ replot_timer # TimerOff) ~> (pc = "update_move" \/ ~active_streamer)

\* The part of C38 about a notification received while the stream runs.
C38_NotificationDrained ==
  (IsStreamingActive /\ replot_timer # TimerOff) ~> (pc = "update_move" \/ ~active_streamer)

----
\* Playback and streaming.

\* The playback shortcut (Space): QShortcut::activated is connected to
\* QPushButton::toggle of the play button, which on_buttonPlay_toggled
\* follows; neither looks at the state of streaming.
OnPlaybackShortcut ==
  /\ pc = "idle"
  /\ playing' = ~playing
  /\ UNCHANGED <<undo_vars, stream_vars, graph_vars, window_rest, detail_vars>>

\* The points of the file that is loaded.
PlayFiles == {<<>>, <<1, 2>>}

NextPlay ==
  \/ \E started, declared \in BOOLEAN : StartStreamingPlugin(started, declared)
  \/ StartImportMoveData
  \/ StartImportCurveList
  \/ StartFinish
  \/ StopStreamingPlugin
  \/ OnStreamingToggled
  \/ OnButtonPlayToggled
  \/ OnPlaybackShortcut
  \/ \E points \in PlayFiles : LoadDataFromFile(points)
  \/ \E step \in StreamSteps : StreamerPush(step)

SpecPlay == InitStream /\ [][NextPlay]_vars

\* C39: between two handlers the playback timer never runs while streaming
\* is active (a streamer is running and the pause button is up).
C39_PlaybackExcludesStreaming ==
  pc = "idle" => ~(playing /\ IsStreamingActive)

====
